---- MODULE Spec2Model ----
(***************************************************************************)
(* A model of the fann nearest-neighbour index: distance kernels and       *)
(* providers (base.rs, distances/), the pair cache (base.rs, cache.rs),    *)
(* the k-medoid tree builder and the recursive search (fann/kmed.rs), the  *)
(* stream search (fann/algo.rs) and the forest (forest.rs).                *)
(*                                                                         *)
(* Embeddings are points of the integer plane, a corpus index i is the     *)
(* row arr[i + 1] of the embedding array, and a DistanceCmp is an integer  *)
(* (every f64 the model meets is a small integer, so f64 arithmetic is     *)
(* exact on it).                                                           *)
(***************************************************************************)
EXTENDS Integers, Sequences, FiniteSets, Bags, TLC

VARIABLES
    arr,            \* the embedding array the root provider views
    distance,       \* the distance kernel bound to the provider
    tie,            \* how the unstable sorts and binary searches place equal keys
    params,         \* build parameters: max_node_size, pre_cluster
    all,            \* range [start, end) of the root provider
    min_tree_size,  \* Forest::create argument
    max_tree_size,  \* Forest::create argument
    fpc,            \* position of the forest: "create", "created", "built", "panic"
    start,          \* the cursor of the loop of Forest::create
    trees,          \* the forest's tree builders, one per slab
    remain,         \* the residual range of the forest
    ctx,            \* the caller's pair cache and observation sink
    spc,            \* position of the search: "idle", "run", "done", "panic"
    scope,          \* 0: the search covers the forest, i > 0: only slab i
    other,          \* the query embedding
    count,          \* the number of neighbours asked for
    queue,          \* the priority queue of the stream search
    res,            \* the result buffer of the stream search
    out,            \* what the finished search returned
    form,           \* the form of the search: "none", "stream", "rec"
    hist,           \* recursive form: the result buffer after every insertion
    prov,           \* a provider derived by subrange calls, and the last call
    archive,        \* the blob store: the archive save_all wrote last
    io,             \* the last call of build_all, set_tree, load_all or save_all
    origin,         \* per slab, how its tree came: "none", "built", "adopted"
    orig,           \* the forest whose trees the archive was saved from
    kmed,           \* a run of kmedoid, one round of its loop at a time
    seen            \* stream search: the pushes and the distances computed

\* What Forest::create, build_all and the searches never touch.
ext == <<prov, archive, io, orig, kmed, seen>>

vars == <<arr, distance, tie, params, all, min_tree_size, max_tree_size, fpc,
          start, trees, remain, ctx, spc, scope, other, count, queue, res,
          out, form, hist, prov, archive, io, origin, orig, kmed,
          seen>>

(***************************************************************************)
(* Bounds of the model.                                                    *)
(***************************************************************************)
MaxN == 6           \* largest provider the forest is created over
MaxCount == 3       \* largest number of neighbours a query asks for
MaxTree == 6        \* largest max_tree_size
MaxMinTree == 2     \* largest min_tree_size of a forest that is built
MaxCap == 8         \* largest capacity of the LRU pair cache
MaxSlabs == 6       \* slabs after which the loop of Forest::create is cut off
MaxRange == 7       \* largest provider of the slab partition on its own
MaxArr == 4         \* largest array the provider calls are made on
MaxStore == 6       \* size of the provider of a forest that is saved and loaded
MaxForests == 2     \* most forests that are created after the first one
MaxOps == 2         \* most calls of load_all, save_all and set_tree on one forest
MaxIxs == 6         \* most indices kmedoid is called on
MaxK == 3           \* largest k_num kmedoid is called with
MaxAccess == 4      \* most consultations of the pair cache by one caller
MaxKeyIx == 3       \* the caller consults the cache on indices below MaxKeyIx

(***************************************************************************)
(* Program constants.                                                      *)
(***************************************************************************)
Inf == 1000000      \* f64::INFINITY: above every distance and every sum
Rounds == 1000      \* kmedoid: let mut rounds = 1000
BuffSize == 10      \* kmedoid: let buff_size = 10
None == -1          \* Option::None of an index or a size

Min(a, b) == IF a <= b THEN a ELSE b
Max(a, b) == IF a >= b THEN a ELSE b
Abs(x) == IF x < 0 THEN 0 - x ELSE x

RemoveAt(s, i) == SubSeq(s, 1, i - 1) \o SubSeq(s, i + 1, Len(s))
InsertAt(s, i, e) == SubSeq(s, 1, i - 1) \o <<e>> \o SubSeq(s, i, Len(s))
RangeSeq(a, b) == [i \in 1..(b - a) |-> a + i - 1]
Elems(s) == {s[i] : i \in 1..Len(s)}

(***************************************************************************)
(* Distance kernels: implementations of trait Distance.  "l2" is the       *)
(* squared euclidean kernel of the repository; "l1" is the city-block      *)
(* kernel, a kernel that obeys the triangle inequality.                    *)
(***************************************************************************)
distance_cmp(d, a, b) ==
    IF d = "l1"
    THEN Abs(a[1] - b[1]) + Abs(a[2] - b[2])
    ELSE (a[1] - b[1]) * (a[1] - b[1]) + (a[2] - b[2]) * (a[2] - b[2])

\* finalize_distance: the identity for "l1"; the square root for "l2", kept
\* as the term sqrt(v) because the root of an integer is no integer.
finalize_distance(d, v) ==
    IF d = "l1" THEN [fn |-> "id", of |-> v] ELSE [fn |-> "sqrt", of |-> v]

\* f64::total_cmp on two finalized values of one kernel: both maps are
\* strictly increasing on the integers the model meets.
total_cmp_less(x, y) == x.of < y.of

(***************************************************************************)
(* Embedding provider: a range [start, end) over the array.                *)
(***************************************************************************)
Provider(a, r, d) == [arr |-> a, start |-> r[1], end |-> r[2], distance |-> d]

provider_all(P) == RangeSeq(P.start, P.end)

get_embed(P, index) == P.arr[index + 1]

\* subrange: InvalidRangeError, or the provider over new_range.
subrange(P, new_range) ==
    IF new_range[1] < P.start \/ new_range[2] > P.end
    THEN [ok |-> FALSE]
    ELSE [ok |-> TRUE, provider |-> Provider(P.arr, new_range, P.distance)]

(***************************************************************************)
(* Pair cache.  kind "none" is NoCache, kind "lru" is DistanceCache: lru   *)
(* lists the entries from the most to the least recently used.             *)
(***************************************************************************)
\* Key::new with the lower index stored twice.
Key_lower_twice(index_a, index_b) ==
    <<Min(index_a, index_b), Min(index_a, index_b)>>

Key(index_a, index_b) == <<Min(index_a, index_b), Max(index_a, index_b)>>

LruFind(lru, key) ==
    IF \E i \in 1..Len(lru) : lru[i].key = key
    THEN CHOOSE i \in 1..Len(lru) : lru[i].key = key
    ELSE 0

\* A get that answers with the entry used last, whatever its key.
cache_get_front(c, key) ==
    IF c.kind = "none" \/ Len(c.lru) = 0
    THEN [found |-> FALSE, cache |-> c]
    ELSE [found |-> TRUE, value |-> c.lru[1].value, cache |-> c]

cache_get(c, key) ==
    LET i == LruFind(c.lru, key) IN
    IF c.kind = "none" \/ i = 0
    THEN [found |-> FALSE, cache |-> c]
    ELSE [found |-> TRUE, value |-> c.lru[i].value,
          cache |-> [c EXCEPT !.lru = <<c.lru[i]>> \o RemoveAt(c.lru, i)]]

cache_put(c, key, value) ==
    LET i == LruFind(c.lru, key)
        e == [key |-> key, value |-> value]
    IN  IF c.kind = "none" THEN c
        ELSE IF i > 0 THEN [c EXCEPT !.lru = <<e>> \o RemoveAt(c.lru, i)]
        ELSE IF Len(c.lru) >= c.cap
             THEN [c EXCEPT !.lru = <<e>> \o SubSeq(c.lru, 1, c.cap - 1)]
             ELSE [c EXCEPT !.lru = <<e>> \o c.lru]

\* Info::log_cache_access
log_cache_access(x, is_miss) ==
    IF is_miss THEN [x EXCEPT !.miss = @ + 1] ELSE [x EXCEPT !.hits = @ + 1]

\* A cached_dist that looks the pair up as it was given.
cached_dist_as_given(x, P, index_a, index_b) ==
    LET key == <<index_a, index_b>>
        g == cache_get(x.cache, key)
    IN  IF g.found
        THEN [d |-> g.value,
              ctx |-> log_cache_access([x EXCEPT !.cache = g.cache], FALSE)]
        ELSE LET v == distance_cmp(P.distance, get_embed(P, index_a),
                                   get_embed(P, index_b))
             IN  [d |-> v,
                  ctx |-> log_cache_access(
                      [x EXCEPT !.cache = cache_put(g.cache, key, v)], TRUE)]

\* Cache::cached_dist on two indexed embeddings: the distance and the
\* cache and sink after the call.
cached_dist(x, P, index_a, index_b) ==
    LET key == Key(index_a, index_b)
        g == cache_get(x.cache, key)
    IN  IF g.found
        THEN [d |-> g.value,
              ctx |-> log_cache_access([x EXCEPT !.cache = g.cache], FALSE)]
        ELSE LET v == distance_cmp(P.distance, get_embed(P, index_a),
                                   get_embed(P, index_b))
             IN  [d |-> v,
                  ctx |-> log_cache_access(
                      [x EXCEPT !.cache = cache_put(g.cache, key, v)], TRUE)]

\* Cache::cached_distance
cached_distance(x, P, index_a, index_b) == cached_dist(x, P, index_a, index_b)

(***************************************************************************)
(* Tree nodes.                                                             *)
(***************************************************************************)
NewNode(centroid_index) ==
    [centroid_index |-> centroid_index, radius |-> 0, count |-> 1,
     children |-> <<>>]

\* get_child_dist_max without the radius of the child.
get_child_dist_max_no_radius(child) == child.center_dist

get_child_dist_max(child) == child.center_dist + child.node.radius

SeqMax(s, default) ==
    IF Len(s) = 0 THEN default
    ELSE CHOOSE m \in Elems(s) : \A v \in Elems(s) : v <= m

\* A compute_radius that leaves the radius at zero.
compute_radius_zero(node) == [node EXCEPT !.radius = 0]

\* Node::compute_radius
compute_radius(node) ==
    [node EXCEPT !.radius =
        SeqMax([i \in 1..Len(node.children) |->
                    get_child_dist_max(node.children[i])], 0)]

\* The place sort_unstable_by (decreasing center_dist) gives the child
\* pushed last: behind the children with an equal key (tie 0) or in front
\* of them (tie 1).
ChildPlace(children, center_dist, t) ==
    IF t = 0
    THEN 1 + Cardinality({i \in 1..Len(children) :
                            children[i].center_dist >= center_dist})
    ELSE 1 + Cardinality({i \in 1..Len(children) :
                            children[i].center_dist > center_dist})

\* Node::add_child once the distance cd of the two centroids is known: the
\* node with the child pushed and the children sorted, and the cache and
\* sink after the call.
push_child(node, child, cd, t) ==
    [node |-> [node EXCEPT
                 !.count = @ + child.count,
                 !.children = InsertAt(@, ChildPlace(@, cd.d, t),
                                       [node |-> child, center_dist |-> cd.d])],
     ctx |-> cd.ctx]

\* Node::add_child
add_child(node, child, P, x, t) ==
    push_child(node, child,
               cached_distance(x, P, node.centroid_index, child.centroid_index),
               t)

(***************************************************************************)
(* Tree builder.  The operators thread the caller's cache and sink: where  *)
(* the code mutates cache and info, an operator takes them as ctx and      *)
(* returns a record that holds its result and the ctx after the call.      *)
(***************************************************************************)
\* FannTree::get_dist
FannTree_get_dist(x, P, a, b) == cached_distance(x, P, a, b)

\* FannTree::centroid, res.combine(get_dist, cur + dist)
add_dist(acc, r) == [d |-> acc.d + r.d, ctx |-> r.ctx]

\* FannTree::centroid, the inner fold: the sum of the distances of ix to
\* the others, abandoned once it exceeds best_dist.
RECURSIVE centroid_sum(_, _, _, _, _, _)
centroid_sum(P, all_ixs, ix, best_dist, j, acc) ==
    IF j > Len(all_ixs) THEN acc
    ELSE IF all_ixs[j] = ix \/ acc.d > best_dist
         THEN centroid_sum(P, all_ixs, ix, best_dist, j + 1, acc)
         ELSE centroid_sum(P, all_ixs, ix, best_dist, j + 1,
                  add_dist(acc, FannTree_get_dist(acc.ctx, P, ix, all_ixs[j])))

\* A fold that takes the later of two candidates with equal sums.
centroid_best_last(best, ix, cur) ==
    IF best.ix = None \/ cur.d <= best.d
    THEN [ix |-> ix, d |-> cur.d, ctx |-> cur.ctx]
    ELSE [best EXCEPT !.ctx = cur.ctx]

\* FannTree::centroid, the closure of the outer fold: the better of best
\* and the candidate ix with the sum cur.
centroid_best(best, ix, cur) ==
    IF best.ix = None \/ cur.d < best.d
    THEN [ix |-> ix, d |-> cur.d, ctx |-> cur.ctx]
    ELSE [best EXCEPT !.ctx = cur.ctx]

\* FannTree::centroid, the outer fold over the candidates.
RECURSIVE centroid_fold(_, _, _, _)
centroid_fold(P, all_ixs, i, best) ==
    IF i > Len(all_ixs) THEN best
    ELSE centroid_fold(P, all_ixs, i + 1,
             centroid_best(best, all_ixs[i],
                 centroid_sum(P, all_ixs, all_ixs[i], best.d, 1,
                              [d |-> 0, ctx |-> best.ctx])))

\* FannTree::centroid: ix = None is the panic of unwrap on an empty set.
centroid(P, all_ixs, x) ==
    centroid_fold(P, all_ixs, 1, [ix |-> None, d |-> Inf, ctx |-> x])

\* A min_by that takes the later of two clusters equally near.
min_by_cmp_last(best, j, dist_a, dist_b) ==
    [best |-> IF dist_a.d >= dist_b.d THEN j ELSE best, ctx |-> dist_b.ctx]

\* kmedoid, the comparison of min_by: the later cluster j wins only when
\* it is strictly nearer.
min_by_cmp(best, j, dist_a, dist_b) ==
    [best |-> IF dist_a.d > dist_b.d THEN j ELSE best, ctx |-> dist_b.ctx]

\* kmedoid, the closure of min_by: dist_a, then dist_b.
min_by_dist_b(P, cs, ix, best, j, dist_a) ==
    min_by_cmp(best, j, dist_a, FannTree_get_dist(dist_a.ctx, P, ix, cs[j]))

\* kmedoid, min_by over the clusters: the position of the cluster whose
\* centroid is nearest to ix, the first one among equals.
RECURSIVE min_by(_, _, _, _, _)
min_by(P, cs, ix, j, acc) ==
    IF j > Len(cs) THEN acc
    ELSE min_by(P, cs, ix, j + 1,
             min_by_dist_b(P, cs, ix, acc.best, j,
                 FannTree_get_dist(acc.ctx, P, ix, cs[acc.best])))

\* kmedoid, best.push(ix)
push_assignment(acc, m, ix) ==
    [res |-> [acc.res EXCEPT ![m.best] = [@ EXCEPT !.a = Append(@, ix)]],
     ctx |-> m.ctx]

\* kmedoid, the assignment round: every index that is no centroid joins the
\* cluster of its nearest centroid.
RECURSIVE assign(_, _, _, _, _)
assign(P, all_ixs, cs, i, acc) ==
    IF i > Len(all_ixs) THEN acc
    ELSE IF all_ixs[i] \in Elems(cs)
         THEN assign(P, all_ixs, cs, i + 1, acc)
         ELSE assign(P, all_ixs, cs, i + 1,
                  push_assignment(acc,
                      min_by(P, cs, all_ixs[i], 2,
                             [best |-> 1, ctx |-> acc.ctx]),
                      all_ixs[i]))

\* kmedoid, collect() of the new centroids
push_centroid(acc, c) == [cs |-> Append(acc.cs, c.ix), ctx |-> c.ctx]

\* kmedoid, the medoids of the clusters of one round.
RECURSIVE new_centroids(_, _, _, _)
new_centroids(P, clusters, i, acc) ==
    IF i > Len(clusters) THEN acc
    ELSE new_centroids(P, clusters, i + 1,
             push_centroid(acc, centroid(P, clusters[i].a, acc.ctx)))

\* kmedoid, the clusters a round starts from: every centroid alone.
init_res(centroids) ==
    [i \in 1..Len(centroids) |-> [c |-> centroids[i], a |-> <<centroids[i]>>]]

\* kmedoid, the ring buffer after push_front; buff[1] is the front.
push_front(buff, new_cs) ==
    <<new_cs>> \o (IF Len(buff) >= BuffSize
                   THEN SubSeq(buff, 1, BuffSize - 1) ELSE buff)

RECURSIVE kmedoid_loop(_, _, _, _, _, _)
RECURSIVE kmedoid_round(_, _, _, _, _, _)
RECURSIVE kmedoid_next(_, _, _, _, _)

\* kmedoid, the loop from the new centroids on.
kmedoid_next(P, all_ixs, buff, rounds, nc) ==
    kmedoid_loop(P, all_ixs, push_front(buff, nc.cs), rounds - 1,
                 \E i \in 1..Len(buff) : buff[i] = nc.cs, nc.ctx)

\* kmedoid, the loop from the assignment asg on.
kmedoid_round(P, all_ixs, buff, rounds, done, asg) ==
    IF done \/ rounds - 1 <= 0 THEN asg
    ELSE kmedoid_next(P, all_ixs, buff, rounds,
             new_centroids(P, asg.res, 1, [cs |-> <<>>, ctx |-> asg.ctx]))

\* kmedoid, the loop.
kmedoid_loop(P, all_ixs, buff, rounds, done, x) ==
    kmedoid_round(P, all_ixs, buff, rounds, done,
        assign(P, all_ixs, buff[1], 1, [res |-> init_res(buff[1]), ctx |-> x]))

\* Option<Vec<usize>>
NoCentroids == [some |-> FALSE, v |-> <<>>]
SomeCentroids(cs) == [some |-> TRUE, v |-> cs]

\* FannTree::kmedoid
kmedoid(P, all_ixs, init_centroids, k_num, x) ==
    IF Len(all_ixs) <= k_num
    THEN [res |-> [i \in 1..Len(all_ixs) |-> [c |-> all_ixs[i], a |-> <<>>]],
          ctx |-> x]
    ELSE kmedoid_loop(P, all_ixs,
                      <<IF init_centroids.some
                        THEN init_centroids.v ELSE SubSeq(all_ixs, 1, k_num)>>,
                      Rounds, FALSE, x)

\* FannTree::remove that removes nothing.
remove_nothing(ixs, index) == ixs

\* FannTree::remove
remove(ixs, index) == SelectSeq(ixs, LAMBDA ix : ix # index)

\* (len as f64).sqrt() as usize
ISqrt(n) == CHOOSE r \in 0..n : r * r <= n /\ (r + 1) * (r + 1) > n

\* build_level: the fanout of a level.
num_k(max_node_size, len) ==
    IF max_node_size * max_node_size > len
    THEN Max(ISqrt(len), 1)
    ELSE max_node_size

\* build_level, first branch: every index becomes a leaf child.
RECURSIVE add_leaves(_, _, _, _, _)
add_leaves(nx, ixs, i, P, t) ==
    IF i > Len(ixs) THEN nx
    ELSE add_leaves(add_child(nx.node, compute_radius(NewNode(ixs[i])), P,
                              nx.ctx, t),
                    ixs, i + 1, P, t)

\* build_level: the centroids of the clusters of the pre-clustering.
centroids_of(r) ==
    [init |-> SomeCentroids([i \in 1..Len(r.res) |-> r.res[i].c]),
     ctx |-> r.ctx]

\* build_level: the initial centroids the pre-clustering gives.
pre_centroids(P, cur_all_ixs, k, pre_cluster, x) ==
    IF pre_cluster = None \/ Len(cur_all_ixs) <= pre_cluster * k * 2
    THEN [init |-> NoCentroids, ctx |-> x]
    ELSE centroids_of(
             kmedoid(P, SubSeq(cur_all_ixs, 1,
                               Min(pre_cluster * k, Len(cur_all_ixs))),
                     NoCentroids, k, x))

\* build_level: node.add_child(child_node, ...) of a built subtree.
add_subtree(node, sub, P, t) == add_child(node, sub.node, P, sub.ctx, t)

\* build_level: node.compute_radius() at the end.
with_radius(nx) == [node |-> compute_radius(nx.node), ctx |-> nx.ctx]

RECURSIVE build_level(_, _, _, _, _, _, _)
RECURSIVE add_clusters(_, _, _, _, _, _, _)

\* build_level, second branch: one subtree per cluster.
add_clusters(nx, clusters, i, P, max_node_size, pre_cluster, t) ==
    IF i > Len(clusters) THEN nx
    ELSE add_clusters(
             add_subtree(nx.node,
                 build_level(P, nx.ctx, clusters[i].c,
                             remove(clusters[i].a, clusters[i].c),
                             max_node_size, pre_cluster, t),
                 P, t),
             clusters, i + 1, P, max_node_size, pre_cluster, t)

\* build_level, second branch: the children of the clustering km.
cluster_children(P, cur_root_ix, km, max_node_size, pre_cluster, t) ==
    add_clusters([node |-> NewNode(cur_root_ix), ctx |-> km.ctx], km.res, 1,
                 P, max_node_size, pre_cluster, t)

\* build_level, second branch: the clustering from the initial centroids.
build_clusters(P, cur_root_ix, cur_all_ixs, k, max_node_size, pre_cluster, t, pre) ==
    cluster_children(P, cur_root_ix,
                     kmedoid(P, cur_all_ixs, pre.init, k, pre.ctx),
                     max_node_size, pre_cluster, t)

\* FannTree::build_level
build_level(P, x, cur_root_ix, cur_all_ixs, max_node_size, pre_cluster, t) ==
    LET k == num_k(max_node_size, Len(cur_all_ixs))
    IN  with_radius(
            IF k = 1 \/ Len(cur_all_ixs) <= k
            THEN add_leaves([node |-> NewNode(cur_root_ix), ctx |-> x],
                            cur_all_ixs, 1, P, t)
            ELSE build_clusters(P, cur_root_ix, cur_all_ixs, k, max_node_size,
                     pre_cluster, t,
                     pre_centroids(P, cur_all_ixs, k, pre_cluster, x)))

\* EmbeddingProvider::compute_hash: the digest of the range and of the
\* embeddings of the range, kept as the hashed content itself.
compute_hash(P) ==
    <<P.start, P.end, [i \in 1..(P.end - P.start) |-> P.arr[P.start + i]]>>

\* FannTree::build: the tree around the built root.
tree_of(P, r) ==
    [ok |-> TRUE,
     tree |-> [root |-> r.node, hash |-> compute_hash(P),
               distance_name |-> P.distance],
     ctx |-> r.ctx]

\* FannTree::build from the centroid of the range on: ok = FALSE is the
\* panic of centroid on an empty range.
build_from(P, p, all_ixs, root_ix, t) ==
    IF root_ix.ix = None
    THEN [ok |-> FALSE, ctx |-> root_ix.ctx]
    ELSE tree_of(P,
             build_level(P, root_ix.ctx, root_ix.ix,
                         remove(all_ixs, root_ix.ix),
                         IF p.max_node_size = None THEN Len(all_ixs)
                         ELSE p.max_node_size,
                         p.pre_cluster, t))

\* FannTree::build
build(P, p, x, t) ==
    build_from(P, p, provider_all(P), centroid(P, provider_all(P), x), t)

(***************************************************************************)
(* Search: what both forms share.                                          *)
(***************************************************************************)
\* LocalDistance::distance_cmp: the distance of the query to a corpus index.
ldist_distance_cmp(P, q, index) ==
    distance_cmp(P.distance, q, get_embed(P, index))

\* The place binary_search gives an entry of distance d in a buffer sorted
\* by distance: the insertion point when no entry has distance d, else the
\* place of an entry of distance d, the first (tie 0) or the last (tie 1).
BinarySearch(buf, d, t) ==
    LET eq == {i \in 1..Len(buf) : buf[i][2] = d}
    IN  IF eq = {}
        THEN 1 + Cardinality({i \in 1..Len(buf) : buf[i][2] < d})
        ELSE IF t = 0
             THEN CHOOSE i \in eq : \A j \in eq : i <= j
             ELSE CHOOSE i \in eq : \A j \in eq : i >= j

\* add_node without the truncation.
add_node_no_truncate(buf, index, d, cnt, t) ==
    InsertAt(buf, BinarySearch(buf, d, t), <<index, d>>)

\* add_node of both forms: insert at the place of the binary search, then
\* truncate to count.
add_node(buf, index, d, cnt, t) ==
    LET full == InsertAt(buf, BinarySearch(buf, d, t), <<index, d>>)
    IN  SubSeq(full, 1, Min(cnt, Len(full)))

\* The final map of both forms: (index, finalize_distance(dist)).
Finalized(P, buf) ==
    [i \in 1..Len(buf) |-> <<buf[i][1], finalize_distance(P.distance, buf[i][2])>>]

\* An unstable sort of a sequence of pairs <<element, key>> by the integer
\* key: equal keys keep their order (tie 0) or come out reversed (tie 1).
RECURSIVE SortByKey(_, _)
SortByKey(s, t) ==
    IF Len(s) = 0 THEN <<>>
    ELSE LET sorted == SortByKey(SubSeq(s, 1, Len(s) - 1), t)
             e == s[Len(s)]
             place == IF t = 0
                      THEN 1 + Cardinality({i \in 1..Len(sorted) :
                                              sorted[i][2] <= e[2]})
                      ELSE 1 + Cardinality({i \in 1..Len(sorted) :
                                              sorted[i][2] < e[2]})
         IN  InsertAt(sorted, place, e)

(***************************************************************************)
(* Stream search (compute_closest).                                        *)
(***************************************************************************)
\* StreamingNode::get_min_distance of a tree node
get_min_distance(node, dist_cmp) == Max(0, dist_cmp - node.radius)

\* StreamingElement::new: the distance is computed
StreamingElement_new(P, q, node) ==
    [elem |-> node,
     dist |-> [known |-> TRUE,
               v |-> ldist_distance_cmp(P, q, node.centroid_index)]]

\* StreamingElement::with_estimate
with_estimate(node, estimate) ==
    [elem |-> node, dist |-> [known |-> FALSE, v |-> estimate]]

\* StreamingElement::dist_min
dist_min(e) ==
    IF e.dist.known THEN get_min_distance(e.elem, e.dist.v) ELSE e.dist.v

\* StreamingElement::get_distance: the memoized distance, computed when
\* the element holds an estimate only.
get_distance(P, q, e) ==
    IF e.dist.known THEN e.dist.v
    ELSE ldist_distance_cmp(P, q, e.elem.centroid_index)

\* StreamingElement::get_distance without the assignment to self.dist.
after_get_distance_forgets(P, q, e) == e

\* StreamingElement::get_distance: the element afterwards, which holds the
\* distance.
after_get_distance(P, q, e) ==
    [e EXCEPT !.dist = [known |-> TRUE, v |-> get_distance(P, q, e)]]

\* StreamingElement::get_cached_dist panics on an element that holds an
\* estimate only.
get_cached_dist_panics(e) == ~e.dist.known

\* StreamingElement::get_cached_dist
get_cached_dist(e) == e.dist.v

\* compute_closest::max_dist panics on res[res.len() - 1] of an empty
\* buffer, which it reaches exactly when count is 0.
max_dist_panics(buf, cnt) == Len(buf) >= cnt /\ Len(buf) = 0

\* compute_closest::max_dist
max_dist(buf, cnt) == IF Len(buf) < cnt THEN Inf ELSE buf[Len(buf)][2]

\* The closure of the outer case: the element of a child, or none.
outer_child(child, own_dist, buf, cnt) ==
    LET c_dist_est == own_dist - child.center_dist
    IN  IF max_dist(buf, cnt) < c_dist_est THEN {}
        ELSE {with_estimate(child.node, c_dist_est)}

\* The closure of the inner case: the element of a child, or none.
inner_child(P, q, child, buf, cnt) ==
    LET celem == StreamingElement_new(P, q, child.node)
    IN  IF max_dist(buf, cnt) < dist_min(celem) THEN {} ELSE {celem}

\* StreamingNode::with_children of a tree node: apply the closure (a map
\* from the children to what it returns) to every child, push the results.
with_children(node, apply) ==
    UNION {apply[node.children[i]] : i \in 1..Len(node.children)}

\* The bag of the centroid indices of a sequence of children: one copy
\* per element pushed onto the queue or made with StreamingElement::new.
RECURSIVE IndexBag(_)
IndexBag(children) ==
    IF Len(children) = 0 THEN EmptyBag
    ELSE SetToBag({Head(children).node.centroid_index})
         (+) IndexBag(Tail(children))

(***************************************************************************)
(* Recursive search (Node::get_closest).  st.res is the result buffer,     *)
(* st.panic tells that the search panicked, st.hist collects the buffer    *)
(* after every add_node.                                                   *)
(***************************************************************************)
\* Node::get_closest::max_dist panics when count.min(res.len()) is 0.
node_max_dist_panics(buf, cnt) == Min(cnt, Len(buf)) = 0

\* Node::get_closest::max_dist
node_max_dist(buf, cnt) == buf[Min(cnt, Len(buf))][2]

\* Node::get_dist with the query as the embedding of the local cache; a
\* local cache hands out the value it was given for the index, so the
\* distance is the kernel on the query and the centroid.
Node_get_dist(P, q, node) ==
    distance_cmp(P.distance, q, get_embed(P, node.centroid_index))

\* Node::get_dist_min
get_dist_min(P, q, node) == Max(0, Node_get_dist(P, q, node) - node.radius)

RECURSIVE node_get_closest(_, _, _, _, _, _)
RECURSIVE closest_outer(_, _, _, _, _, _, _, _)
RECURSIVE closest_inner(_, _, _, _, _, _, _)

\* The loop of the outer case over the children from place i on.
closest_outer(node, i, own_dist, st, cnt, P, q, t) ==
    IF i > Len(node.children) \/ st.panic THEN st
    ELSE IF node_max_dist_panics(st.res, cnt) THEN [st EXCEPT !.panic = TRUE]
    ELSE IF node_max_dist(st.res, cnt) < own_dist - node.children[i].center_dist
         THEN closest_outer(node, i + 1, own_dist, st, cnt, P, q, t)
         ELSE closest_outer(node, i + 1, own_dist,
                            node_get_closest(node.children[i].node, st, cnt,
                                             P, q, t),
                            cnt, P, q, t)

\* The loop of the inner case over the sorted pairs <<node, dist>>.
closest_inner(inners, i, st, cnt, P, q, t) ==
    IF i > Len(inners) \/ st.panic THEN st
    ELSE IF node_max_dist_panics(st.res, cnt) THEN [st EXCEPT !.panic = TRUE]
    ELSE IF node_max_dist(st.res, cnt) < inners[i][2]
         THEN closest_inner(inners, i + 1, st, cnt, P, q, t)
         ELSE closest_inner(inners, i + 1,
                            node_get_closest(inners[i][1], st, cnt, P, q, t),
                            cnt, P, q, t)

\* Node::get_closest, the buffer with one more entry.
with_added(st, added) == [st EXCEPT !.res = added, !.hist = @ \cup {added}]

\* Node::get_closest, the node itself: it is added while the buffer is not
\* full or when it is nearer than the cutoff.
closest_own(node, own_dist, st, cnt, t) ==
    IF Len(st.res) < cnt \/ own_dist < node_max_dist(st.res, cnt)
    THEN with_added(st, add_node(st.res, node.centroid_index, own_dist, cnt, t))
    ELSE st

\* Node::get_closest, the children sorted by get_dist_min.
sorted_inners(node, P, q, t) ==
    SortByKey([i \in 1..Len(node.children) |->
                  <<node.children[i].node,
                    get_dist_min(P, q, node.children[i].node)>>], t)

\* Node::get_closest
node_get_closest(node, st, cnt, P, q, t) ==
    LET own_dist == Node_get_dist(P, q, node)
    IN  IF st.panic THEN st
        ELSE IF Len(st.res) >= cnt /\ node_max_dist_panics(st.res, cnt)
        THEN [st EXCEPT !.panic = TRUE]
        ELSE IF node.radius < own_dist
        THEN closest_outer(node, 1, own_dist,
                           closest_own(node, own_dist, st, cnt, t),
                           cnt, P, q, t)
        ELSE closest_inner(sorted_inners(node, P, q, t), 1,
                           closest_own(node, own_dist, st, cnt, t),
                           cnt, P, q, t)

\* FannTree::get_closest, the final map of the buffer.
closest_result(P, st) ==
    [panic |-> st.panic, hist |-> st.hist,
     out |-> IF st.panic THEN <<>> ELSE Finalized(P, st.res)]

\* FannTree::get_closest
tree_get_closest(tree, cnt, P, q, t) ==
    closest_result(P,
        node_get_closest(tree.root,
                         [res |-> <<>>, panic |-> FALSE, hist |-> {}],
                         cnt, P, q, t))

(***************************************************************************)
(* Forest.                                                                 *)
(***************************************************************************)
\* Forest::create_builder_from: a builder without a tree, which nothing on
\* disk stands for: it is dirty, so that save_all reports the forest that
\* was never built.
create_builder_from(range) ==
    [range |-> range, ready |-> FALSE, dirty |-> TRUE, tree |-> None]

\* Buildable::raw_set_tree(tree, true) with the tree r that was built.
set_built(b, r) ==
    IF r.ok
    THEN [ok |-> TRUE, ctx |-> r.ctx,
          builder |-> [b EXCEPT !.ready = TRUE, !.dirty = TRUE,
                                !.tree = r.tree]]
    ELSE [ok |-> FALSE, ctx |-> r.ctx, builder |-> b]

\* Buildable::build: build the tree of the builder's provider, keep it as
\* a dirty tree.
builder_build(b, P, p, x, t) ==
    set_built(b, build(subrange(P, b.range).provider, p, x, t))

RECURSIVE build_all(_, _, _, _, _, _)
RECURSIVE build_all_next(_, _, _, _, _, _)

\* Forest::build_all, from the builder r.builder that was built at place i on.
build_all_next(bs, i, P, p, t, r) ==
    IF r.ok
    THEN build_all([bs EXCEPT ![i] = r.builder], i + 1, P, p, r.ctx, t)
    ELSE [ok |-> FALSE, trees |-> bs, ctx |-> r.ctx]

\* Forest::build_all, the builders from place i on.
build_all(bs, i, P, p, x, t) ==
    IF i > Len(bs) THEN [ok |-> TRUE, trees |-> bs, ctx |-> x]
    ELSE build_all_next(bs, i, P, p, t, builder_build(bs[i], P, p, x, t))

RECURSIVE Flatten(_)
Flatten(ss) == IF Len(ss) = 0 THEN <<>> ELSE ss[1] \o Flatten(Tail(ss))

\* par_sort_unstable_by(total_cmp) of a sequence of (index, distance).
sort_by_distance(flat, t) ==
    LET keyed == SortByKey([i \in 1..Len(flat) |->
                               <<flat[i], flat[i][2].of>>], t)
    IN  [i \in 1..Len(keyed) |-> keyed[i][1]]

\* res.truncate(count)
truncate(s, cnt) == SubSeq(s, 1, Min(cnt, Len(s)))

\* Forest::get_closest, from the results per of the slabs on.
forest_merge(per, cnt, t) ==
    [panic |-> \E i \in 1..Len(per) : per[i].panic,
     hist |-> UNION {per[i].hist : i \in 1..Len(per)},
     out |-> truncate(sort_by_distance(
                          Flatten([i \in 1..Len(per) |-> per[i].out]), t),
                      cnt)]

\* Forest::get_closest: the searches of the slabs, concatenated, sorted by
\* finalized distance and truncated.  The residual range is not searched.
forest_get_closest(bs, cnt, P, q, t) ==
    forest_merge([i \in 1..Len(bs) |->
                     tree_get_closest(bs[i].tree, cnt, P, q, t)], cnt, t)

\* StreamingNeighbors::get_roots: one element per tree root, of the forest
\* (sc = 0) or of slab sc alone.
get_roots(bs, sc, P, q) ==
    {StreamingElement_new(P, q, bs[i].tree.root) :
        i \in IF sc = 0 THEN 1..Len(bs) ELSE {sc}}

RootProvider == Provider(arr, all, distance)

\* The loop condition with < in place of <=.
create_continues_strict(s, min_size, end) == s + min_size < end

\* Forest::create: the condition of the while loop.
create_continues(s, min_size, end) == s + min_size <= end

\* Forest::create: the size of the next slab.
slab_size(s, max_size, end) == Min(end - s, max_size)

(***************************************************************************)
(* The exhaustive scans of the providers (distances/ndarray.rs, vec.rs).   *)
(***************************************************************************)
\* NdDotDistance::distance_cmp, exp(-a.b): exp is strictly increasing, the
\* DistanceCmp is kept as its exponent.
NdDot_distance_cmp(a, b) == 0 - (a[1] * b[1] + a[2] * b[2])

\* NdDotDistance::finalize_distance: the value itself, the term exp(v).
NdDot_finalize_distance(v) == [fn |-> "exp", of |-> v]

\* iter().take(count)
take(s, cnt) == SubSeq(s, 1, Min(cnt, Len(s)))

\* NdProvider::get_closest, the result from the sorted indices on.
NdProvider_result(sorted, cnt) ==
    [n \in 1..Min(cnt, Len(sorted)) |->
        <<take(sorted, cnt)[n][1], NdDot_finalize_distance(sorted[n][2])>>]

\* NdProvider::get_closest: the rows of the range are sliced out of the
\* array, the indices 0..dists.len() are sorted by the distance of their
\* row, the first count of them are returned.
NdProvider_get_closest(P, q, cnt, t) ==
    NdProvider_result(
        SortByKey([i \in 1..(P.end - P.start) |->
                      <<i - 1, NdDot_distance_cmp(P.arr[P.start + i], q)>>], t),
        cnt)

\* VecProvider::get_closest, the result from the sorted pairs on.
VecProvider_result(P, sorted, cnt) ==
    [n \in 1..Min(cnt, Len(sorted)) |->
        <<take(sorted, cnt)[n][1],
          finalize_distance(P.distance, sorted[n][2])>>]

\* VecProvider::get_closest: self.embeddings is enumerated, the pairs of
\* position and distance are sorted by distance, the first count of them
\* are returned.
VecProvider_get_closest(P, q, cnt, t) ==
    VecProvider_result(P,
        SortByKey([i \in 1..Len(P.arr) |->
                      <<i - 1, distance_cmp(P.distance, P.arr[i], q)>>], t),
        cnt)

\* NdProvider::new, VecProvider::new: the provider of the whole array.
ProviderNew(a) ==
    [range |-> <<0, Len(a)>>, parent |-> <<0, Len(a)>>, asked |-> <<0, 0>>,
     ok |-> TRUE, called |-> FALSE]

\* What a call of subrange(asked) on the provider of range cur leaves: the
\* new provider and the one it came from, or the error and the provider
\* as it was.
after_subrange(cur, asked, r) ==
    IF r.ok
    THEN [range |-> <<r.provider.start, r.provider.end>>, parent |-> cur,
          asked |-> asked, ok |-> TRUE, called |-> TRUE]
    ELSE [range |-> cur, parent |-> cur, asked |-> asked, ok |-> FALSE,
          called |-> TRUE]


(***************************************************************************)
(* Persistence of a forest (forest.rs): the archive is a set of files, a   *)
(* file is a name and the JSON text of a tree, kept as the sequence of its *)
(* keys and values.                                                        *)
(***************************************************************************)
\* Forest::get_name: format!("tree{start}-{size}.json")
get_name(range) == <<"tree", range[1], "-", range[2] - range[1], ".json">>

\* Tree::save, serde_json::to_writer of a Node
RECURSIVE to_json_node(_)
to_json_node(node) ==
    <<"centroid_index", node.centroid_index, "radius", node.radius,
      "count", node.count,
      "children", [i \in 1..Len(node.children) |->
                      <<"node", to_json_node(node.children[i].node),
                        "center_dist", node.children[i].center_dist>>]>>

\* Tree::save, serde_json::to_writer of a FannTree
to_json(tree) ==
    <<"root", to_json_node(tree.root), "hash", tree.hash,
      "distance_name", tree.distance_name>>

\* Tree::load, serde_json::from_reader of a Node
RECURSIVE from_json_node(_)
from_json_node(j) ==
    [centroid_index |-> j[2], radius |-> j[4], count |-> j[6],
     children |-> [i \in 1..Len(j[8]) |->
                      [node |-> from_json_node(j[8][i][2]),
                       center_dist |-> j[8][i][4]]]]

\* A from_reader that reads no radius.
from_json_no_radius(j) ==
    [root |-> [from_json_node(j[2]) EXCEPT
                  !.radius = 0,
                  !.children = [i \in 1..Len(@) |->
                                   [@[i] EXCEPT !.node.radius = 0]]],
     hash |-> j[4], distance_name |-> j[6]]

\* Tree::load, serde_json::from_reader of a FannTree
from_json(j) ==
    [root |-> from_json_node(j[2]), hash |-> j[4], distance_name |-> j[6]]

\* Tree::save: start_file(name), then the tree as JSON
tree_save(tree, name) == [name |-> name, content |-> to_json(tree)]

\* load_all: archive.file_names().any(|fname| fname == name)
has_file(ar, name) == \E f \in ar : f.name = name

\* Tree::load: archive.by_name(name), then from_reader
tree_load(ar, name) == from_json((CHOOSE f \in ar : f.name = name).content)

\* Buildable::provider: the provider of the builder's slab.
builder_provider(P, b) == subrange(P, b.range).provider

\* Buildable::raw_set_tree
raw_set_tree(b, tree, is_dirty) ==
    [b EXCEPT !.ready = TRUE, !.dirty = is_dirty, !.tree = tree]

\* A set_tree that never looks at the provider.
set_tree_unchecked(b, P, tree, ignore_provider, is_dirty) ==
    [ok |-> TRUE, builder |-> raw_set_tree(b, tree, is_dirty)]

\* Buildable::set_tree on the builder b of provider P: the error, or the
\* builder with the tree.
set_tree(b, P, tree, ignore_provider, is_dirty) ==
    IF ~ignore_provider /\ (\/ tree.distance_name # P.distance
                            \/ tree.hash # compute_hash(P))
    THEN [ok |-> FALSE, builder |-> b]
    ELSE [ok |-> TRUE, builder |-> raw_set_tree(b, tree, is_dirty)]

\* A load_all that builds every tree.
need_build_always(force, present) == TRUE

\* load_all: need_build, before the tree of a file that is present is set.
need_build(force, present) == force \/ ~present

\* load_all: the fold after set_tree(root, ignore_provider, false)? of
\* slab i returned r.
load_adopted(st, i, r) ==
    IF r.ok
    THEN [st EXCEPT !.trees[i] = r.builder, !.how[i] = "adopted"]
    ELSE [st EXCEPT !.ok = FALSE, !.err = "MisconfiguredTreeError"]

\* load_all: the fold after tree.build(params, cache, info) of slab i
\* returned r.
load_built(st, i, r) ==
    IF r.ok
    THEN [st EXCEPT !.trees[i] = r.builder, !.how[i] = "built",
                    !.ctx = r.ctx]
    ELSE [st EXCEPT !.panic = TRUE, !.ctx = r.ctx]

\* load_all: the closure of the fold on slab i.
load_one(st, i, ar, ignore_provider, P, p, force, t) ==
    IF need_build(force, has_file(ar, get_name(st.trees[i].range)))
    THEN load_built(st, i, builder_build(st.trees[i], P, p, st.ctx, t))
    ELSE load_adopted(st, i,
             set_tree(st.trees[i], builder_provider(P, st.trees[i]),
                      tree_load(ar, get_name(st.trees[i].range)),
                      ignore_provider, FALSE))

\* Forest::load_all, the fold from slab i on: once the result is an error
\* every later slab is left as it is.
RECURSIVE load_all(_, _, _, _, _, _, _, _)
load_all(st, i, ar, ignore_provider, P, p, force, t) ==
    IF i > Len(st.trees) \/ ~st.ok \/ st.panic THEN st
    ELSE load_all(load_one(st, i, ar, ignore_provider, P, p, force, t),
                  i + 1, ar, ignore_provider, P, p, force, t)

\* Forest::load_all: what the fold starts from.
load_start(bs, x) ==
    [ok |-> TRUE, err |-> "none", panic |-> FALSE, trees |-> bs, ctx |-> x,
     how |-> [i \in 1..Len(bs) |-> "kept"]]

\* A save_all that writes every tree that is there.
save_skips_any(b) == ~b.ready

\* save_all: the builder is passed over.
save_skips(b) == ~b.dirty

\* A save_all that passes over a builder without a tree.
save_one_ready(st, b) ==
    IF save_skips(b) \/ ~b.ready THEN st
    ELSE [st EXCEPT !.written =
                        @ \cup {tree_save(b.tree, get_name(b.range))}]

\* save_all: the closure of the fold on the builder b.
save_one(st, b) ==
    IF save_skips(b) THEN st
    ELSE IF b.ready
         THEN [st EXCEPT !.written =
                             @ \cup {tree_save(b.tree, get_name(b.range))}]
         ELSE [st EXCEPT !.ok = FALSE, !.err = "TreeNotBuiltError"]

\* Forest::save_all, the fold from slab i on.
RECURSIVE save_all(_, _, _)
save_all(bs, i, st) ==
    IF i > Len(bs) \/ ~st.ok THEN st
    ELSE save_all(bs, i + 1, save_one(st, bs[i]))

\* Forest::save_all: what the fold starts from, a new archive.
save_start == [ok |-> TRUE, err |-> "none", written |-> {}]

\* How the tree of a slab came, after load_all handled the slabs as how:
\* "set" is a tree that was adopted without a look at the provider.
origin_after(before, how, ignore_provider) ==
    [i \in 1..Len(how) |->
        IF how[i] = "kept" THEN before[i]
        ELSE IF how[i] = "adopted" /\ ignore_provider THEN "set"
        ELSE how[i]]


(***************************************************************************)
(* kmedoid, one pass of its loop at a time: km is the run, with the ring   *)
(* buffer buff, the countdown rounds, the flag done, the assignment res of *)
(* the last pass and the number n of assignment rounds so far.             *)
(***************************************************************************)
\* kmedoid up to the loop: the early return, or the first centroids.
kmedoid_start(all_ixs, init_centroids, k_num) ==
    IF Len(all_ixs) <= k_num
    THEN [pc |-> "returned", all_ixs |-> all_ixs, k_num |-> k_num,
          buff |-> <<>>, rounds |-> Rounds, done |-> FALSE,
          res |-> [i \in 1..Len(all_ixs) |-> [c |-> all_ixs[i], a |-> <<>>]],
          n |-> 0, capped |-> FALSE]
    ELSE [pc |-> "loop", all_ixs |-> all_ixs, k_num |-> k_num,
          buff |-> <<IF init_centroids.some
                     THEN init_centroids.v ELSE SubSeq(all_ixs, 1, k_num)>>,
          rounds |-> Rounds, done |-> FALSE, res |-> <<>>,
          n |-> 0, capped |-> FALSE]

\* kmedoid: return res, because done is set or, after rounds -= 1, because
\* rounds <= 0.
kmedoid_returns(km, asg, capped) ==
    [km |-> [km EXCEPT !.pc = "returned", !.res = asg.res, !.n = @ + 1,
                       !.rounds = IF capped THEN @ - 1 ELSE @,
                       !.capped = capped],
     ctx |-> asg.ctx]

\* A loop that never counts its rounds down.
kmedoid_continues_uncounted(km, asg, nc) ==
    [km |-> [km EXCEPT !.res = asg.res, !.n = @ + 1,
                       !.done = \E i \in 1..Len(km.buff) : km.buff[i] = nc.cs,
                       !.buff = push_front(km.buff, nc.cs)],
     ctx |-> nc.ctx]

\* A loop that never looks for its new centroids in the buffer.
kmedoid_continues_unseen(km, asg, nc) ==
    [km |-> [km EXCEPT !.res = asg.res, !.n = @ + 1, !.rounds = @ - 1,
                       !.buff = push_front(km.buff, nc.cs)],
     ctx |-> nc.ctx]

\* kmedoid: the rest of a pass that does not return, with the new
\* centroids nc.
kmedoid_continues(km, asg, nc) ==
    [km |-> [km EXCEPT !.res = asg.res, !.n = @ + 1, !.rounds = @ - 1,
                       !.done = \E i \in 1..Len(km.buff) : km.buff[i] = nc.cs,
                       !.buff = push_front(km.buff, nc.cs)],
     ctx |-> nc.ctx]

\* kmedoid: a pass of the loop from the assignment asg on.
kmedoid_after_assign(km, P, asg) ==
    IF km.done THEN kmedoid_returns(km, asg, FALSE)
    ELSE IF km.rounds - 1 <= 0 THEN kmedoid_returns(km, asg, TRUE)
    ELSE kmedoid_continues(km, asg,
             new_centroids(P, asg.res, 1, [cs |-> <<>>, ctx |-> asg.ctx]))

\* kmedoid: a pass of the loop.  With no centroid min_by finds no cluster
\* for the first index and unwrap panics.
kmedoid_pass(km, P, x) ==
    IF Len(km.buff[1]) = 0
    THEN [km |-> [km EXCEPT !.pc = "panic"], ctx |-> x]
    ELSE kmedoid_after_assign(km, P,
             assign(P, km.all_ixs, km.buff[1], 1,
                    [res |-> init_res(km.buff[1]), ctx |-> x]))

\* build_level: the indices a level clusters, in index order.
IxsOf(S) == SelectSeq(RangeSeq(0, MaxIxs), LAMBDA i : i \in S)


(***************************************************************************)
(* The inputs.                                                             *)
(***************************************************************************)
\* Embedding arrays: two separated groups in the plane, a line with a far
\* pair, an array with a repeated embedding, three far pairs, and points
\* of one line out of order.
Arrays ==
    { << <<2, 0>>, <<1, 2>>, <<2, 2>>, <<3, 2>>, <<0, 1>>, <<3, 0>>, <<1, 1>> >>,
      << <<0, 0>>, <<1, 0>>, <<2, 0>>, <<6, 0>>, <<7, 0>>, <<4, 1>>, <<3, 2>> >>,
      << <<1, 1>>, <<1, 1>>, <<3, 0>>, <<0, 2>>, <<2, 2>>, <<1, 1>>, <<0, 0>> >>,
      << <<0, 0>>, <<0, 1>>, <<5, 5>>, <<5, 6>>, <<9, 0>>, <<9, 1>>, <<4, 3>> >>,
      << <<5, 0>>, <<4, 0>>, <<1, 0>>, <<5, 0>>, <<0, 0>>, <<8, 0>>, <<3, 0>> >> }

Queries == { <<0, 0>>, <<3, 1>>, <<1, 3>> }

\* The array of the first forest that is saved and loaded, and an array
\* that differs from it in one component of one embedding.
StoreArray ==
    << <<2, 0>>, <<1, 2>>, <<2, 2>>, <<3, 2>>, <<0, 1>>, <<3, 0>>, <<0, 3>> >>

StoreArrays == {StoreArray, [StoreArray EXCEPT ![MaxStore] = <<1, 1>>]}

Windows(a, n) ==
    {<<s, e>> : s \in 0..Len(a), e \in 0..Len(a)} \cap
    {w \in (0..Len(a)) \X (0..Len(a)) : w[1] <= w[2] /\ w[2] - w[1] <= n}

NoCache == [kind |-> "none", cap |-> 0, lru |-> <<>>]
DistanceCache(cap) == [kind |-> "lru", cap |-> cap, lru |-> <<>>]
BaseInfo(c) == [cache |-> c, hits |-> 0, miss |-> 0]

NoProv == [range |-> <<0, 0>>, parent |-> <<0, 0>>, asked |-> <<0, 0>>,
           ok |-> TRUE, called |-> FALSE]
NoIo == [op |-> "none", n |-> 0]
NoOrig == [saved |-> FALSE, gen |-> 0]
NoKm == [pc |-> "idle"]

InitIdle ==
    /\ fpc = "new"
    /\ start = 0
    /\ trees = <<>>
    /\ remain = <<0, 0>>
    /\ spc = "idle"
    /\ form = "none"
    /\ scope = 0
    /\ other = <<0, 0>>
    /\ count = 0
    /\ queue = {}
    /\ res = <<>>
    /\ out = <<>>
    /\ hist = {}
    /\ prov = NoProv
    /\ archive = {}
    /\ io = NoIo
    /\ origin = <<>>
    /\ orig = NoOrig
    /\ kmed = NoKm
    /\ seen = [pushed |-> EmptyBag, dists |-> EmptyBag, unknown |-> FALSE]

(***************************************************************************)
(* Forest::create, one action per position.                                *)
(***************************************************************************)
\* The statements in front of the loop: all.len() % max_tree_size panics
\* when max_tree_size is 0.
Create ==
    /\ fpc = "new"
    /\ IF max_tree_size = 0
       THEN fpc' = "panic" /\ UNCHANGED start
       ELSE fpc' = "create" /\ start' = all[1]
    /\ UNCHANGED <<arr, distance, tie, params, all, min_tree_size,
                   max_tree_size, trees, remain, ctx, spc, scope, other,
                   count, queue, res, out, form, hist>>
    /\ UNCHANGED <<ext, origin>>

\* One round of the while loop: the next slab.
CreateStep ==
    /\ fpc = "create"
    /\ create_continues(start, min_tree_size, all[2])
    /\ Len(trees) < MaxSlabs
    /\ LET size == slab_size(start, max_tree_size, all[2])
           cur == subrange(RootProvider, <<start, start + size>>)
       IN  IF cur.ok
           THEN /\ trees' = Append(trees,
                        create_builder_from(<<cur.provider.start,
                                              cur.provider.end>>))
                /\ start' = start + size
                /\ fpc' = fpc
           ELSE fpc' = "panic" /\ UNCHANGED <<trees, start>>
    /\ UNCHANGED <<arr, distance, tie, params, all, min_tree_size,
                   max_tree_size, remain, ctx, spc, scope, other, count,
                   queue, res, out, form, hist>>
    /\ origin' = IF fpc' = "panic" THEN origin ELSE Append(origin, "none")
    /\ UNCHANGED ext

\* The end of the loop: the rest of the range is the residual.
CreateEnd ==
    /\ fpc = "create"
    /\ ~create_continues(start, min_tree_size, all[2])
    /\ LET r == subrange(RootProvider, <<start, all[2]>>)
       IN  IF r.ok
           THEN remain' = <<r.provider.start, r.provider.end>>
                /\ fpc' = "created"
           ELSE fpc' = "panic" /\ UNCHANGED remain
    /\ UNCHANGED <<arr, distance, tie, params, all, min_tree_size,
                   max_tree_size, start, trees, ctx, spc, scope, other,
                   count, queue, res, out, form, hist>>
    /\ UNCHANGED <<ext, origin>>

(***************************************************************************)
(* Forest::build_all                                                       *)
(***************************************************************************)
BuildAll ==
    /\ fpc = "created"
    /\ LET r == build_all(trees, 1, RootProvider, params, ctx, tie)
       IN  /\ fpc' = IF r.ok THEN "built" ELSE "panic"
           /\ trees' = r.trees
           /\ ctx' = r.ctx
    /\ UNCHANGED <<arr, distance, tie, params, all, min_tree_size,
                   max_tree_size, start, remain, spc, scope, other, count,
                   queue, res, out, form, hist>>
    /\ origin' = [i \in 1..Len(trees') |->
                      IF trees'[i].ready THEN "built" ELSE origin[i]]
    /\ io' = [op |-> "build_all", n |-> io.n]
    /\ UNCHANGED <<prov, archive, orig, kmed, seen>>

(***************************************************************************)
(* The stream search: get_closest_stream, then one action per round of     *)
(* the loop of compute_closest.                                            *)
(***************************************************************************)
StreamStart ==
    /\ fpc = "built"
    /\ spc = "idle"
    /\ \E q \in Queries, k \in 0..MaxCount, sc \in 0..Len(trees) :
        /\ other' = q
        /\ count' = k
        /\ scope' = sc
        /\ queue' = get_roots(trees, sc, RootProvider, q)
        /\ \E roots \in {[i \in IF sc = 0 THEN 1..Len(trees) ELSE 1..1 |->
                               [node |-> trees[IF sc = 0 THEN i
                                               ELSE sc].tree.root]]} :
              seen' = [pushed |-> IndexBag(roots), dists |-> IndexBag(roots),
                       unknown |-> FALSE]
    /\ spc' = "run"
    /\ form' = "stream"
    /\ res' = <<>>
    /\ UNCHANGED <<arr, distance, tie, params, all, min_tree_size,
                   max_tree_size, fpc, start, trees, remain, ctx, out, hist>>
    /\ UNCHANGED <<prov, archive, io, orig, kmed, origin>>

\* One round of the loop: pop an element of least dist_min (the heap may
\* hand out any of several least ones), stop when it cannot improve the
\* result, else take it into the buffer and push its children.
StreamStep ==
    /\ spc = "run"
    /\ queue # {}
    /\ \E cur \in queue :
        /\ \A e \in queue : dist_min(cur) <= dist_min(e)
        /\ IF max_dist_panics(res, count)
           THEN /\ spc' = "panic"
                /\ queue' = queue \ {cur}
                /\ UNCHANGED <<res, out, seen>>
           ELSE IF dist_min(cur) > max_dist(res, count)
           THEN /\ spc' = "done"
                /\ queue' = queue \ {cur}
                /\ out' = Finalized(RootProvider, res)
                /\ UNCHANGED <<res, seen>>
           ELSE LET known == after_get_distance(RootProvider, other, cur)
                    computed == IF cur.dist.known THEN EmptyBag
                                ELSE SetToBag({cur.elem.centroid_index})
                IN  IF get_cached_dist_panics(known)
                    THEN /\ spc' = "panic"
                         /\ queue' = queue \ {cur}
                         /\ seen' = [seen EXCEPT !.dists = @ (+) computed,
                                                 !.unknown = TRUE]
                         /\ UNCHANGED <<res, out>>
                    ELSE
                    LET own_dist == get_cached_dist(known)
                        buf == IF own_dist < max_dist(res, count)
                               THEN add_node(res, cur.elem.centroid_index,
                                             own_dist, count, tie)
                               ELSE res
                        is_outer == cur.elem.radius < own_dist
                        apply ==
                            IF is_outer
                            THEN [c \in Elems(cur.elem.children) |->
                                     outer_child(c, own_dist, buf, count)]
                            ELSE [c \in Elems(cur.elem.children) |->
                                     inner_child(RootProvider, other, c, buf,
                                                 count)]
                        pushed == with_children(cur.elem, apply)
                        kept(c) == apply[c] # {}
                    IN  /\ res' = buf
                        /\ queue' = (queue \ {cur}) \cup pushed
                        /\ seen' =
                              [seen EXCEPT
                                  !.pushed = @ (+) IndexBag(
                                      SelectSeq(cur.elem.children, kept)),
                                  !.dists = @ (+) computed (+)
                                      (IF is_outer THEN EmptyBag
                                       ELSE IndexBag(cur.elem.children))]
                        /\ spc' = "run"
                        /\ UNCHANGED out
    /\ UNCHANGED <<arr, distance, tie, params, all, min_tree_size,
                   max_tree_size, fpc, start, trees, remain, ctx, scope,
                   other, count, form, hist>>
    /\ UNCHANGED <<prov, archive, io, orig, kmed, origin>>

\* The queue is empty: the loop ends and the buffer is returned.
StreamReturn ==
    /\ spc = "run"
    /\ queue = {}
    /\ spc' = "done"
    /\ out' = Finalized(RootProvider, res)
    /\ UNCHANGED <<arr, distance, tie, params, all, min_tree_size,
                   max_tree_size, fpc, start, trees, remain, ctx, scope,
                   other, count, queue, res, form, hist>>
    /\ UNCHANGED <<ext, origin>>

(***************************************************************************)
(* The recursive search: Forest::get_closest over the slabs (scope 0) or   *)
(* FannTree::get_closest on one slab tree.                                 *)
(***************************************************************************)
RecSearch ==
    /\ fpc = "built"
    /\ spc = "idle"
    /\ \E q \in Queries, k \in 0..MaxCount, sc \in 0..Len(trees) :
        LET r == IF sc = 0
                 THEN forest_get_closest(trees, k, RootProvider, q, tie)
                 ELSE tree_get_closest(trees[sc].tree, k, RootProvider, q, tie)
        IN  /\ other' = q
            /\ count' = k
            /\ scope' = sc
            /\ spc' = IF r.panic THEN "panic" ELSE "done"
            /\ out' = r.out
            /\ hist' = r.hist
    /\ form' = "rec"
    /\ UNCHANGED <<arr, distance, tie, params, all, min_tree_size,
                   max_tree_size, fpc, start, trees, remain, ctx, queue, res>>
    /\ UNCHANGED <<ext, origin>>

(***************************************************************************)
(* Calls on a provider: subrange, and the exhaustive scan get_closest of   *)
(* the provider at hand.                                                   *)
(***************************************************************************)
\* subrange(s..e) on the provider at hand; a Range of usize may have any
\* two bounds.
Subrange ==
    /\ spc = "idle"
    /\ \E s \in 0..(Len(arr) + 1), e \in 0..(Len(arr) + 1) :
        prov' = after_subrange(prov.range, <<s, e>>,
                    subrange(Provider(arr, prov.range, distance), <<s, e>>))
    /\ UNCHANGED <<arr, distance, tie, params, all, min_tree_size,
                   max_tree_size, fpc, start, trees, remain, ctx, spc, scope,
                   other, count, queue, res, out, form, hist, archive, io,
                   origin, orig, kmed, seen>>

\* NdProvider::get_closest of a provider whose range is no inverted one.
NdGetClosest ==
    /\ spc = "idle"
    /\ prov.range[1] <= prov.range[2]
    /\ \E q \in Queries, k \in 0..MaxCount :
        /\ other' = q
        /\ count' = k
        /\ out' = NdProvider_get_closest(Provider(arr, prov.range, distance),
                                         q, k, tie)
    /\ spc' = "done"
    /\ form' = "nd"
    /\ UNCHANGED <<arr, distance, tie, params, all, min_tree_size,
                   max_tree_size, fpc, start, trees, remain, ctx, scope,
                   queue, res, hist, prov, archive, io, origin, orig, kmed,
                   seen>>

\* VecProvider::get_closest of a provider whose range is no inverted one.
VecGetClosest ==
    /\ spc = "idle"
    /\ prov.range[1] <= prov.range[2]
    /\ \E q \in Queries, k \in 0..MaxCount :
        /\ other' = q
        /\ count' = k
        /\ out' = VecProvider_get_closest(Provider(arr, prov.range, distance),
                                          q, k, tie)
    /\ spc' = "done"
    /\ form' = "vec"
    /\ UNCHANGED <<arr, distance, tie, params, all, min_tree_size,
                   max_tree_size, fpc, start, trees, remain, ctx, scope,
                   queue, res, hist, prov, archive, io, origin, orig, kmed,
                   seen>>


(***************************************************************************)
(* Forest::build_all on a forest that is built: every tree is built anew,  *)
(* with the pair cache as the first build_all left it.                     *)
(***************************************************************************)
Rebuild ==
    /\ fpc = "built"
    /\ LET r == build_all(trees, 1, RootProvider, params, ctx, tie)
       IN  /\ fpc' = IF r.ok THEN "rebuilt" ELSE "panic"
           /\ trees' = r.trees
           /\ ctx' = r.ctx
    /\ UNCHANGED <<arr, distance, tie, params, all, min_tree_size,
                   max_tree_size, start, remain, spc, scope, other, count,
                   queue, res, out, form, hist, origin>>
    /\ UNCHANGED ext


(***************************************************************************)
(* Persistence: load_all, save_all and set_tree on the forest at hand, and *)
(* a new forest, over the same or another provider, next to the archive.   *)
(***************************************************************************)
\* Forest::load_all from the archive save_all wrote last.
LoadAll ==
    /\ fpc \in {"created", "built"}
    /\ io.n < MaxOps
    /\ \E force \in BOOLEAN, ignore_provider \in BOOLEAN :
        \E r \in {load_all(load_start(trees, ctx), 1, archive,
                           ignore_provider, RootProvider, params, force,
                           tie)} :
            /\ trees' = r.trees
            /\ ctx' = r.ctx
            /\ fpc' = IF r.panic THEN "panic"
                      ELSE IF r.ok THEN "built" ELSE fpc
            /\ origin' = origin_after(origin, r.how, ignore_provider)
            /\ io' = [op |-> "load_all", n |-> io.n + 1, ok |-> r.ok,
                      err |-> r.err, force |-> force,
                      ignore_provider |-> ignore_provider, how |-> r.how]
    /\ UNCHANGED <<arr, distance, tie, params, all, min_tree_size,
                   max_tree_size, start, remain, spc, scope, other, count,
                   queue, res, out, form, hist, prov, archive, orig, kmed,
                   seen>>

\* Forest::save_all into a new archive.
SaveAll ==
    /\ fpc \in {"created", "built"}
    /\ io.n < MaxOps
    /\ \E r \in {save_all(trees, 1, save_start)} :
        /\ archive' = r.written
        /\ io' = [op |-> "save_all", n |-> io.n + 1, ok |-> r.ok,
                  err |-> r.err, names |-> {f.name : f \in r.written}]
        /\ orig' = IF r.ok
                   THEN [saved |-> TRUE, gen |-> orig.gen, of |-> orig.gen,
                         arr |-> arr,
                         distance |-> distance, trees |-> trees,
                         origin |-> origin]
                   ELSE [saved |-> FALSE, gen |-> orig.gen]
    /\ UNCHANGED <<arr, distance, tie, params, all, min_tree_size,
                   max_tree_size, fpc, start, trees, remain, ctx, spc, scope,
                   other, count, queue, res, out, form, hist, prov, origin,
                   kmed, seen>>

\* Buildable::set_tree on the builder of one slab, with the tree of a file
\* of the archive, before load_all or save_all is called on the forest.
SetTree ==
    /\ fpc \in {"created", "built"}
    /\ io.op \in {"none", "build_all"}
    /\ \E i \in 1..Len(trees), f \in archive,
          ignore_provider \in BOOLEAN, is_dirty \in BOOLEAN :
        \E r \in {set_tree(trees[i], builder_provider(RootProvider, trees[i]),
                           from_json(f.content), ignore_provider,
                           is_dirty)} :
            /\ trees' = [trees EXCEPT ![i] = r.builder]
            /\ origin' = IF r.ok /\ ~ignore_provider /\ ~is_dirty
                         THEN [origin EXCEPT ![i] = "adopted"]
                         ELSE IF r.ok THEN [origin EXCEPT ![i] = "set"]
                         ELSE origin
            /\ io' = [op |-> "set_tree", n |-> io.n + 1, ok |-> r.ok,
                      slab |-> i, given |-> from_json(f.content),
                      ignore_provider |-> ignore_provider,
                      is_dirty |-> is_dirty, before |-> trees[i]]
    /\ UNCHANGED <<arr, distance, tie, params, all, min_tree_size,
                   max_tree_size, fpc, start, remain, ctx, spc, scope, other,
                   count, queue, res, out, form, hist, prov, archive, orig,
                   kmed, seen>>

\* A new forest is about to be created next to the archive: over the same
\* array or another one, with the same kernel or another one, with a new
\* pair cache and sink.
NewForest ==
    /\ fpc \in {"created", "built"}
    /\ io.op = "save_all"
    /\ orig.gen < MaxForests
    /\ \E a \in StoreArrays, d \in {"l1", "l2"} :
        /\ a = arr \/ d = distance
        /\ arr' = a
        /\ distance' = d
    /\ orig' = [orig EXCEPT !.gen = @ + 1]
    /\ fpc' = "new"
    /\ start' = 0
    /\ trees' = <<>>
    /\ remain' = <<0, 0>>
    /\ origin' = <<>>
    /\ ctx' = BaseInfo(NoCache)
    /\ io' = NoIo
    /\ UNCHANGED <<tie, params, all, min_tree_size, max_tree_size, spc,
                   scope, other, count, queue, res, out, form, hist, prov,
                   archive, kmed, seen>>


(***************************************************************************)
(* kmedoid, as build_level calls it: on the indices of a level, with the   *)
(* centroids of the pre-clustering or none.                                *)
(***************************************************************************)
KmedoidCall ==
    /\ kmed.pc = "idle"
    /\ \E S \in SUBSET (0..(MaxIxs - 1)), k_num \in 0..MaxK,
          pre_cluster \in {None, 1} :
        \E init \in {pre_centroids(RootProvider, IxsOf(S), k_num,
                                   pre_cluster, ctx)} :
            /\ kmed' = kmedoid_start(IxsOf(S), init.init, k_num)
            /\ ctx' = init.ctx
    /\ UNCHANGED <<arr, distance, tie, params, all, min_tree_size,
                   max_tree_size, fpc, start, trees, remain, spc, scope,
                   other, count, queue, res, out, form, hist, prov, archive,
                   io, origin, orig, seen>>

\* One pass of the loop of kmedoid.
KmedoidRound ==
    /\ kmed.pc = "loop"
    /\ \E r \in {kmedoid_pass(kmed, RootProvider, ctx)} :
        /\ kmed' = r.km
        /\ ctx' = r.ctx
    /\ UNCHANGED <<arr, distance, tie, params, all, min_tree_size,
                   max_tree_size, fpc, start, trees, remain, spc, scope,
                   other, count, queue, res, out, form, hist, prov, archive,
                   io, origin, orig, seen>>


(***************************************************************************)
(* A caller of the pair cache: one consultation of cached_dist per step.   *)
(***************************************************************************)
CachedDist ==
    /\ io.op \in {"none", "cached_dist"}
    /\ io.n < MaxAccess
    /\ \E index_a, index_b \in 0..(MaxKeyIx - 1) :
        \E r \in {cached_dist(ctx, RootProvider, index_a, index_b)} :
            /\ ctx' = r.ctx
            /\ io' = [op |-> "cached_dist", n |-> io.n + 1, a |-> index_a,
                      b |-> index_b, d |-> r.d,
                      prev |-> IF io.op = "cached_dist"
                               THEN <<io.a, io.b>> ELSE <<>>]
    /\ UNCHANGED <<arr, distance, tie, params, all, min_tree_size,
                   max_tree_size, fpc, start, trees, remain, spc, scope,
                   other, count, queue, res, out, form, hist, prov, archive,
                   origin, orig, kmed, seen>>

(***************************************************************************)
(* Specifications.                                                         *)
(***************************************************************************)
\* Forests that are created, built and searched.
Init ==
    /\ arr \in Arrays
    /\ all \in Windows(arr, MaxN)
    /\ distance \in {"l1", "l2"}
    /\ tie \in {0, 1}
    /\ params = [max_node_size |-> None, pre_cluster |-> None]
    /\ min_tree_size \in 1..MaxMinTree
    /\ max_tree_size \in {MaxTree - 3, MaxTree}
    /\ ctx = BaseInfo(NoCache)
    /\ InitIdle

Next ==
    \/ Create
    \/ CreateStep
    \/ CreateEnd
    \/ BuildAll
    \/ StreamStart
    \/ StreamStep
    \/ StreamReturn
    \/ RecSearch

Spec == Init /\ [][Next]_vars

\* Forests that are created and built, over every choice of the build
\* parameters and of the pair cache.
InitBuild ==
    /\ arr \in Arrays
    /\ all \in Windows(arr, MaxN)
    /\ distance \in {"l1", "l2"}
    /\ tie \in {0, 1}
    /\ params \in [max_node_size : {None, 1, 2}, pre_cluster : {None, 1}]
    /\ min_tree_size \in 1..MaxMinTree
    /\ max_tree_size \in {MaxTree - 3, MaxTree}
    /\ ctx \in {BaseInfo(NoCache)} \cup
               {BaseInfo(DistanceCache(cap)) : cap \in {1, MaxCap}}
    /\ InitIdle

NextBuild ==
    \/ Create
    \/ CreateStep
    \/ CreateEnd
    \/ BuildAll
    \/ Rebuild

SpecBuild == InitBuild /\ [][NextBuild]_vars

\* The slab partition alone, over every range and every pair of sizes.
InitCreate ==
    /\ arr = [i \in 1..MaxRange |-> <<0, 0>>]
    /\ all \in Windows(arr, MaxRange)
    /\ distance = "l1"
    /\ tie = 0
    /\ params = [max_node_size |-> None, pre_cluster |-> None]
    /\ min_tree_size \in 0..(MaxTree + 1)
    /\ max_tree_size \in 0..MaxTree
    /\ ctx = BaseInfo(NoCache)
    /\ InitIdle

NextCreate ==
    \/ Create
    \/ CreateStep
    \/ CreateEnd

SpecCreate == InitCreate /\ [][NextCreate]_vars

\* Providers derived from the provider of a whole array by subrange calls,
\* and their exhaustive scans.
InitProvider ==
    /\ arr \in {SubSeq(a, 1, MaxArr) : a \in Arrays}
    /\ all = <<0, Len(arr)>>
    /\ distance \in {"l1", "l2"}
    /\ tie \in {0, 1}
    /\ params = [max_node_size |-> None, pre_cluster |-> None]
    /\ min_tree_size = 1
    /\ max_tree_size = MaxTree
    /\ ctx = BaseInfo(NoCache)
    /\ fpc = "new"
    /\ start = 0
    /\ trees = <<>>
    /\ remain = <<0, 0>>
    /\ spc = "idle"
    /\ form = "none"
    /\ scope = 0
    /\ other = <<0, 0>>
    /\ count = 0
    /\ queue = {}
    /\ res = <<>>
    /\ out = <<>>
    /\ hist = {}
    /\ prov = ProviderNew(arr)
    /\ archive = {}
    /\ io = NoIo
    /\ origin = <<>>
    /\ orig = NoOrig
    /\ kmed = NoKm
    /\ seen = [pushed |-> EmptyBag, dists |-> EmptyBag, unknown |-> FALSE]

NextProvider ==
    \/ Subrange
    \/ NdGetClosest
    \/ VecGetClosest

SpecProvider == InitProvider /\ [][NextProvider]_vars


\* Forests that are created, built, saved and loaded.
InitStore ==
    /\ arr = StoreArray
    /\ all = <<0, MaxStore>>
    /\ distance = "l1"
    /\ tie = 0
    /\ params = [max_node_size |-> None, pre_cluster |-> None]
    /\ min_tree_size = 1
    /\ max_tree_size = MaxStore - 1
    /\ ctx = BaseInfo(NoCache)
    /\ InitIdle

NextStore ==
    \/ Create
    \/ CreateStep
    \/ CreateEnd
    \/ BuildAll
    \/ LoadAll
    \/ SaveAll
    \/ SetTree
    \/ NewForest

SpecStore == InitStore /\ [][NextStore]_vars


\* Runs of kmedoid on the indices of the arrays.
InitKmedoid ==
    /\ arr \in Arrays
    /\ all = <<0, Len(arr)>>
    /\ distance \in {"l1", "l2"}
    /\ tie = 0
    /\ params = [max_node_size |-> None, pre_cluster |-> None]
    /\ min_tree_size = 1
    /\ max_tree_size = MaxTree
    /\ ctx = BaseInfo(NoCache)
    /\ InitIdle

NextKmedoid ==
    \/ KmedoidCall
    \/ KmedoidRound

SpecKmedoid == InitKmedoid /\ [][NextKmedoid]_vars


\* The pair cache under a caller: NoCache, or an LRU cache that holds one
\* pair, two pairs or every pair.
InitCache ==
    /\ arr \in Arrays
    /\ all = <<0, Len(arr)>>
    /\ distance \in {"l1", "l2"}
    /\ tie = 0
    /\ params = [max_node_size |-> None, pre_cluster |-> None]
    /\ min_tree_size = 1
    /\ max_tree_size = MaxTree
    /\ ctx \in {BaseInfo(NoCache)} \cup
               {BaseInfo(DistanceCache(cap)) : cap \in {1, 2, MaxCap}}
    /\ InitIdle

SpecCache == InitCache /\ [][CachedDist]_vars


(***************************************************************************)
(* What the properties speak about.                                        *)
(***************************************************************************)
RangeSet(r) == r[1]..(r[2] - 1)
RangeLen(r) == r[2] - r[1]

\* The kernel on two corpus indices, and on the query and a corpus index.
Dist(i, j) == distance_cmp(distance, arr[i + 1], arr[j + 1])
QDist(i) == distance_cmp(distance, other, arr[i + 1])

\* The centroids of a tree in preorder, its nodes, and its height.
RECURSIVE Centroids(_)
Centroids(node) ==
    <<node.centroid_index>> \o
    Flatten([i \in 1..Len(node.children) |-> Centroids(node.children[i].node)])

RECURSIVE Subtrees(_)
Subtrees(node) ==
    {node} \cup UNION {Subtrees(node.children[i].node) :
                          i \in 1..Len(node.children)}

RECURSIVE Height(_)
Height(node) ==
    IF Len(node.children) = 0 THEN 0
    ELSE 1 + SeqMax([i \in 1..Len(node.children) |->
                        Height(node.children[i].node)], 0)

Built == fpc = "built"
Slabs == 1..Len(trees)
Root(i) == trees[i].tree.root

\* The triangle inequality on a set of embeddings.
TriangleOn(S) ==
    \A x \in S, y \in S, z \in S :
        distance_cmp(distance, x, z) <=
            distance_cmp(distance, x, y) + distance_cmp(distance, y, z)

Embeds(r) == {arr[i + 1] : i \in RangeSet(r)}

\* The range a finished search covers.
SearchRange == IF scope = 0 THEN all ELSE trees[scope].range

DistinctToQuery(r) ==
    \A i \in RangeSet(r), j \in RangeSet(r) : i # j => QDist(i) # QDist(j)

\* The exhaustive scan of a range whose distances to the query are
\* distinct: the indices by increasing distance, the first k of them.
ExhaustiveScan(r, k) ==
    [n \in 1..Min(k, RangeLen(r)) |->
        CHOOSE i \in RangeSet(r) :
            Cardinality({j \in RangeSet(r) : QDist(j) < QDist(i)}) = n - 1]

OutIndices == [n \in 1..Len(out) |-> out[n][1]]

SortedByDist(buf) ==
    \A m \in 1..Len(buf), n \in 1..Len(buf) : m < n => buf[m][2] <= buf[n][2]

Finished == spc = "done" \/ spc = "panic"

(***************************************************************************)
(* The properties.                                                         *)
(***************************************************************************)
\* C1: the stream search started from the root of a tree whose kernel obeys
\* the triangle inequality, for a query with pairwise distinct distances
\* and 1 <= k <= N, returns the set of the k nearest indices.
C1_StreamEqualsScan ==
    (/\ form = "stream" /\ spc = "done" /\ scope >= 1
     /\ count >= 1 /\ count <= RangeLen(SearchRange)
     /\ TriangleOn(Embeds(SearchRange) \cup {other})
     /\ DistinctToQuery(SearchRange))
    => Elems(OutIndices) = Elems(ExhaustiveScan(SearchRange, count))

\* C2: the query of a forest without residual, in either form, returns the
\* indices of the exhaustive scan of the root provider in the same order
\* (stated for the queries of C1, where the order of the scan is unique).
C2_ForestEqualsScan ==
    (/\ form # "none" /\ Finished /\ scope = 0
     /\ Len(trees) >= 1 /\ RangeLen(remain) = 0
     /\ count >= 1 /\ count <= RangeLen(all)
     /\ TriangleOn(Embeds(all) \cup {other})
     /\ DistinctToQuery(all))
    => spc = "done" /\ OutIndices = ExhaustiveScan(all, count)

\* C3: every index of a slab is the centroid of exactly one node of the
\* slab's tree, and every centroid is an index of the slab.
C3_EveryIndexOnce ==
    Built =>
        \A s \in Slabs :
            LET cs == Centroids(Root(s)) IN
            /\ \A x \in RangeSet(trees[s].range) :
                    Cardinality({n \in 1..Len(cs) : cs[n] = x}) = 1
            /\ Elems(cs) \subseteq RangeSet(trees[s].range)

C3_Witness ==
    Built /\ \E s \in Slabs : Height(Root(s)) >= 2

\* Coverage of a tree: no centroid of a subtree is farther from the
\* centroid of the node than the radius of the node.
Coverage(root) ==
    \A n \in Subtrees(root) :
        \A x \in Elems(Centroids(n)) : Dist(n.centroid_index, x) <= n.radius

\* C4 as claimed: coverage for every kernel that is symmetric, non-negative
\* and zero on equal arguments.
C4_CoverageAnyKernel ==
    Built => \A s \in Slabs : Coverage(Root(s))

\* C4 as amended: coverage when the kernel also obeys the triangle
\* inequality on the embeddings of the tree.
C4_CoverageMetric ==
    Built =>
        \A s \in Slabs :
            TriangleOn(Embeds(trees[s].range)) => Coverage(Root(s))

C4_Witness ==
    /\ Built
    /\ \E s \in Slabs :
        /\ Height(Root(s)) >= 2
        /\ TriangleOn(Embeds(trees[s].range))
        /\ \E c \in 1..Len(Root(s).children) :
              Root(s).children[c].node.radius > 0

\* C5: the stored center distance of every child is the kernel on the two
\* centroids, with every pair cache.
C5_CenterDistExact ==
    Built =>
        \A s \in Slabs :
            \A n \in Subtrees(Root(s)) :
                \A c \in 1..Len(n.children) :
                    n.children[c].center_dist =
                        Dist(n.centroid_index,
                             n.children[c].node.centroid_index)

C5_Witness ==
    /\ Built
    /\ Len(trees) >= 2
    /\ ctx.cache.kind = "lru"
    /\ ctx.hits > 0
    /\ \E s \in Slabs : Height(Root(s)) >= 1

\* C6: a tree search with k > N returns every index of the tree once, by
\* increasing distance, in both forms.
C6_AllWhenCountExceeds ==
    (/\ form # "none" /\ Finished /\ scope >= 1
     /\ count > RangeLen(SearchRange))
    => /\ spc = "done"
       /\ Len(out) = RangeLen(SearchRange)
       /\ Elems(OutIndices) = RangeSet(SearchRange)
       /\ \A m \in 1..Len(out), n \in 1..Len(out) :
              m < n => ~total_cmp_less(out[n][2], out[m][2])

\* C7: a search of a built tree with k = 0 completes and returns the empty
\* sequence, in both forms.
C7_EmptyWhenCountZero ==
    (form # "none" /\ Finished /\ scope >= 1 /\ count = 0)
    => spc = "done" /\ out = <<>>

\* C8: the result buffer never holds more than k entries and is sorted by
\* distance at every step, and so is the returned sequence.
C8_BufferBounded ==
    /\ form = "stream" => Len(res) <= count /\ SortedByDist(res)
    /\ form = "rec" =>
          \A buf \in hist : Len(buf) <= count /\ SortedByDist(buf)
    /\ spc = "done" =>
          /\ Len(out) <= count
          /\ \A m \in 1..Len(out), n \in 1..Len(out) :
                 m < n => ~total_cmp_less(out[n][2], out[m][2])

C8_Witness ==
    /\ spc = "done"
    /\ count >= 2
    /\ Len(out) = count
    /\ RangeLen(SearchRange) > count
    /\ \E m \in 1..Len(out) : out[m][2] # out[1][2]

\* C9: with min_tree_size <= max_tree_size the created forest has
\* contiguous slabs in index order, all of size max_tree_size except that
\* the remainder is a last slab when it is >= min_tree_size and the
\* residual otherwise; slabs and residual cover the range.
C9_SlabPartition ==
    (fpc = "created" /\ min_tree_size <= max_tree_size) =>
        LET n == Len(trees)
            size(i) == RangeLen(trees[i].range)
            rem == RangeLen(all) % max_tree_size
            full == RangeLen(all) \div max_tree_size
        IN  /\ \A i \in 1..n :
                  trees[i].range[1] =
                      IF i = 1 THEN all[1] ELSE trees[i - 1].range[2]
            /\ remain[1] = (IF n = 0 THEN all[1] ELSE trees[n].range[2])
            /\ remain[2] = all[2]
            /\ \A i \in 1..(n - 1) : size(i) = max_tree_size
            /\ IF rem >= min_tree_size
               THEN n = full + 1 /\ size(n) = rem /\ RangeLen(remain) = 0
               ELSE /\ n = full
                    /\ \A i \in 1..n : size(i) = max_tree_size
                    /\ RangeLen(remain) = rem

C9_Witness ==
    /\ fpc = "created"
    /\ min_tree_size <= max_tree_size
    /\ Len(trees) >= 2
    /\ RangeLen(trees[Len(trees)].range) < max_tree_size
    /\ RangeLen(remain) = 0

\* C10: a forest over fewer than min_tree_size points has no tree and the
\* whole range as residual, and its query returns the k nearest indices
\* of the residual.
C10_ResidualOnly ==
    /\ (fpc \in {"created", "built"} /\ RangeLen(all) < min_tree_size) =>
          trees = <<>> /\ remain = all
    /\ (/\ form # "none" /\ Finished /\ scope = 0
        /\ RangeLen(all) < min_tree_size
        /\ DistinctToQuery(all))
       => spc = "done" /\ OutIndices = ExhaustiveScan(all, count)

\* A range r that is a sub-range of the range p: within p, and not inverted.
ValidSubrange(r, p) == p[1] <= r[1] /\ r[1] <= r[2] /\ r[2] <= p[2]

\* C11: the exhaustive scan of a sub-range provider over [s, e) returns
\* only absolute corpus indices i with s <= i < e: the first embedding of
\* the range is reported as s, and nothing outside the range is reported.
C11_ScanAbsoluteIndices ==
    (form \in {"nd", "vec"} /\ spc = "done") =>
        \A n \in 1..Len(out) :
            prov.range[1] <= out[n][1] /\ out[n][1] < prov.range[2]

\* C12: subrange(new_range) returns InvalidRange whenever new_range is not
\* a valid sub-range of the provider's range, and otherwise a provider
\* whose range is exactly new_range, with start <= end and within the
\* provider it was derived from.
C12_SubrangeChecked ==
    prov.called =>
        /\ prov.ok <=> ValidSubrange(prov.asked, prov.parent)
        /\ prov.ok => /\ prov.range = prov.asked
                      /\ prov.range[1] <= prov.range[2]
                      /\ ValidSubrange(prov.range, prov.parent)

\* FannTree::build of slab i with NoCache.
BuiltWithNoCache(i) ==
    build(subrange(RootProvider, trees[i].range).provider, params,
          BaseInfo(NoCache), tie).tree

\* C13: the pair cache is advisory: the tree FannTree::build produces over
\* a provider with given parameters is the tree it produces with NoCache,
\* whether it ran with NoCache, with an LRU cache of capacity 1 or MaxCap,
\* or with a cache that earlier builds over the same corpus have filled.
C13_CacheAdvisory ==
    fpc \in {"built", "rebuilt"} =>
        \A i \in Slabs : trees[i].tree = BuiltWithNoCache(i)

\* A forest with a tree of three levels was built a second time, with an
\* LRU cache that answered some of the distances.
C13_Witness ==
    /\ fpc = "rebuilt"
    /\ ctx.cache.kind = "lru"
    /\ ctx.hits > 0
    /\ ctx.miss > 0
    /\ \E i \in Slabs : Height(Root(i)) >= 2

\* The provider of the builder of slab i of the forest at hand.
SlabProvider(i) == builder_provider(RootProvider, trees[i])

\* The archive has a file for slab i.
Present(i) == has_file(archive, get_name(trees[i].range))

\* The tree of the file of slab i.
Stored(i) == tree_load(archive, get_name(trees[i].range))

\* The tree of the file of slab i is of the provider of slab i.
Matches(i) ==
    /\ Stored(i).distance_name = distance
    /\ Stored(i).hash = compute_hash(SlabProvider(i))

\* The last call was load_all(force = false, ignore_provider = false).
LoadedChecked == io.op = "load_all" /\ ~io.force /\ ~io.ignore_provider

\* C14: after load_all(force = false, ignore_provider = false) returned Ok
\* every slab is ready; a slab whose file is in the archive holds the tree
\* of that file, the fingerprint and the distance name of which are those
\* of the slab's provider, and was not built; a slab without a file holds
\* the tree a build gives; and with a file that does not match the slab,
\* load_all does not return Ok.
C14_LoadAllReady ==
    (LoadedChecked /\ fpc # "panic") =>
        /\ io.ok => \A i \in Slabs :
                /\ trees[i].ready
                /\ IF Present(i)
                   THEN /\ trees[i].tree = Stored(i)
                        /\ Matches(i)
                        /\ io.how[i] = "adopted"
                   ELSE /\ trees[i].tree = BuiltWithNoCache(i)
                        /\ io.how[i] = "built"
        /\ (\E i \in Slabs : Present(i) /\ ~Matches(i)) => ~io.ok

\* load_all returned Ok with one tree read and another built.
C14_Witness ==
    /\ LoadedChecked /\ io.ok /\ fpc = "built"
    /\ \E i \in Slabs : Present(i) /\ io.how[i] = "adopted"
    /\ \E i \in Slabs : ~Present(i) /\ io.how[i] = "built"

\* load_all stopped at a file of another provider.
C14_WitnessMismatch ==
    /\ LoadedChecked /\ ~io.ok
    /\ \E i \in Slabs : Present(i) /\ ~Matches(i)

\* The last call was set_tree(ignore_provider = false) on a slab.
SetChecked == io.op = "set_tree" /\ ~io.ignore_provider

\* The tree handed to the last set_tree is of the provider of its slab.
GivenMatches ==
    /\ io.given.distance_name = distance
    /\ io.given.hash = compute_hash(SlabProvider(io.slab))

\* C15: set_tree(ignore_provider = false) adopts the tree only if both its
\* distance name and its fingerprint are those of the builder's provider;
\* otherwise it returns an error and leaves the builder's tree and dirty
\* flag as they were.
C15_SetTreeChecked ==
    SetChecked =>
        /\ io.ok <=> GivenMatches
        /\ io.ok => /\ trees[io.slab].ready
                    /\ trees[io.slab].tree = io.given
                    /\ trees[io.slab].dirty = io.is_dirty
        /\ ~io.ok => trees[io.slab] = io.before

\* set_tree refused a tree of another provider on a builder that had a
\* dirty tree of its own.
C15_Witness ==
    /\ SetChecked /\ ~io.ok /\ ~GivenMatches
    /\ io.before.ready /\ io.before.dirty
    /\ io.before.tree # io.given

\* set_tree adopted a tree of the builder's provider.
C15_WitnessAdopted ==
    /\ SetChecked /\ io.ok /\ GivenMatches /\ ~io.before.ready

\* The names of the files save_all owes: those of the dirty slab trees.
DirtyNames ==
    {get_name(trees[i].range) : i \in {j \in Slabs : trees[j].dirty}}

\* C16: whatever build_all, load_all and save_all did before, a slab tree
\* that was adopted from the archive is clean and a slab tree that was
\* built is dirty; and save_all writes a file for exactly the dirty slab
\* trees, holding the tree, and none for the clean ones.
C16_DirtyTracking ==
    /\ \A i \in Slabs :
        /\ origin[i] = "adopted" => trees[i].ready /\ ~trees[i].dirty
        /\ origin[i] = "built" => trees[i].ready /\ trees[i].dirty
    /\ (io.op = "save_all" /\ io.ok) =>
        /\ io.names = DirtyNames
        /\ \A i \in Slabs :
            trees[i].dirty =>
                tree_save(trees[i].tree, get_name(trees[i].range)) \in archive

\* save_all wrote the built tree of one slab and passed over the adopted
\* tree of another.
C16_Witness ==
    /\ io.op = "save_all" /\ io.ok
    /\ \E i \in Slabs : origin[i] = "adopted" /\ ~Present(i)
    /\ \E i \in Slabs : origin[i] = "built" /\ Present(i)

\* The forest that was saved last was built or loaded, every slab of it.
SavedWhole ==
    /\ orig.saved
    /\ \A i \in 1..Len(orig.trees) :
        orig.trees[i].ready /\ orig.origin[i] \in {"built", "adopted"}

\* load_all returned Ok on a forest over the provider of the forest that
\* was saved last.
LoadedSaved ==
    /\ io.op = "load_all" /\ io.ok /\ fpc = "built"
    /\ SavedWhole
    /\ orig.arr = arr /\ orig.distance = distance

C17_WitnessAgain ==
    /\ LoadedSaved /\ ~io.force /\ orig.of < orig.gen
    /\ \E i \in Slabs : orig.origin[i] = "adopted"

\* No slab of the forest at hand was ever built, loaded or set.
NeverBuilt ==
    /\ Len(trees) >= 1
    /\ \A i \in Slabs : origin[i] = "none" /\ ~trees[i].ready

C19_CreateRejectsMinAboveMax ==
    min_tree_size > max_tree_size =>
        /\ fpc # "created"
        /\ \A i \in Slabs : RangeLen(trees[i].range) >= min_tree_size

\* The run of kmedoid has ended.
KmedoidEnded == kmed.pc \in {"returned", "panic"}

\* What the countdown of kmedoid keeps: at the head of the loop n passes
\* are behind and rounds = Rounds - n >= 1 are left; a run never passes
\* more than Rounds times; a run that ends at the cap has passed Rounds
\* times and returns; what a run returns after a pass is the assignment of
\* the indices to the centroids at the front of the buffer; and only a run
\* with k_num = 0 panics.
KmedoidCounted ==
    kmed.pc # "idle" =>
        /\ kmed.rounds \in 0..Rounds
        /\ kmed.n \in 0..Rounds
        /\ kmed.pc = "loop" =>
              kmed.rounds >= 1 /\ kmed.n = Rounds - kmed.rounds
        /\ kmed.capped =>
              kmed.pc = "returned" /\ kmed.rounds = 0 /\ kmed.n = Rounds
        /\ (kmed.pc = "returned" /\ kmed.n > 0) =>
              kmed.res = assign(RootProvider, kmed.all_ixs, kmed.buff[1], 1,
                                [res |-> init_res(kmed.buff[1]),
                                 ctx |-> ctx]).res
        /\ kmed.pc = "panic" => kmed.k_num = 0

\* A pass of the loop of kmedoid ends the run or leaves fewer rounds, and a
\* run that has ended stays as it is.
KmedoidDescends ==
    /\ kmed.pc = "loop" =>
          \/ kmed'.pc \in {"returned", "panic"}
          \/ /\ kmed'.pc = "loop"
             /\ kmed'.rounds < kmed.rounds
             /\ kmed'.n = kmed.n + 1
    /\ KmedoidEnded => kmed' = kmed

AssignedTo(cs) ==
    assign(RootProvider, kmed.all_ixs, cs, 1,
           [res |-> init_res(cs), ctx |-> ctx]).res

\* The ring buffer of kmedoid holds at most BuffSize centroid sequences.
BufferBounded == kmed.pc # "idle" => Len(kmed.buff) <= BuffSize

\* A pass of kmedoid that goes on sets done exactly when its new centroids,
\* now at the front of the buffer, are one of the sequences the buffer
\* held, as a sequence; and the pass after done was set assigns to that
\* sequence and returns, before the cap.
CycleDetected ==
    /\ (kmed.pc = "loop" /\ kmed'.pc = "loop") =>
          /\ kmed'.done <=> \E i \in 1..Len(kmed.buff) :
                                kmed.buff[i] = kmed'.buff[1]
          /\ ~kmed.done
    /\ (kmed.pc = "loop" /\ kmed.done) =>
          /\ kmed'.pc = "returned"
          /\ kmed'.buff = kmed.buff
          /\ kmed'.res = AssignedTo(kmed.buff[1])
          /\ ~kmed'.capped

Cutoff(buf, cnt) == IF Len(buf) < cnt THEN Inf ELSE buf[Len(buf)][2]

\* C22: the pruning cutoff max_dist of the search is +inf while the result
\* buffer holds fewer than k entries and the distance of the last entry
\* once it holds k, in the stream form on every buffer of the loop and in
\* the recursive form on every buffer a node left behind for its children.
C22_CutoffInfinite ==
    /\ (form = "stream" /\ count >= 1) =>
          max_dist(res, count) = Cutoff(res, count)
    /\ (form = "rec" /\ count >= 1) =>
          \A buf \in hist : node_max_dist(buf, count) = Cutoff(buf, count)

\* The fanout of a level on len candidates with max node size m, as it is
\* to be: m when m * m > len, else the integer square root, at least 1.
Fanout(m, len) == IF m * m > len THEN m ELSE Max(ISqrt(len), 1)

\* The max node size build hands to build_level for slab i.
MaxNodeSize(i) ==
    IF params.max_node_size = None
    THEN RangeLen(trees[i].range) ELSE params.max_node_size

\* The children a level with fanout k has on len candidates: every
\* candidate as a leaf when k = 1 or len <= k, else one child per cluster.
ChildrenOf(k, len) == IF k = 1 \/ len <= k THEN len ELSE k

\* C23: the root level of every built tree, on the candidates S (the slab
\* without the root's centroid) with max node size m, has the fanout
\* k = m when m * m > |S| and k = floor(sqrt(|S|)), at least 1, otherwise.
C23_Fanout ==
    fpc = "built" =>
        \A i \in Slabs :
            LET len == RangeLen(trees[i].range) - 1
            IN  /\ num_k(MaxNodeSize(i), len) = Fanout(MaxNodeSize(i), len)
                /\ Len(Root(i).children)
                       = ChildrenOf(Fanout(MaxNodeSize(i), len), len)

\* The sum of the distances of S[i] to the first j members of S, itself
\* left out.
RECURSIVE SumTo(_, _, _)
SumTo(S, i, j) ==
    IF j = 0 THEN 0
    ELSE SumTo(S, i, j - 1) + (IF S[j] = S[i] THEN 0 ELSE Dist(S[i], S[j]))

\* The sum of the distances of S[i] to the other members of S.
SumOf(S, i) == SumTo(S, i, Len(S))

\* The place of the 1-medoid of S: the first place of the least sum.
MedoidAt(S) ==
    CHOOSE i \in 1..Len(S) :
        /\ \A j \in 1..Len(S) : SumOf(S, i) <= SumOf(S, j)
        /\ \A j \in 1..(i - 1) : SumOf(S, j) > SumOf(S, i)

\* centroid abandons the candidate at some place of S: its running sum
\* exceeds the sum of an earlier candidate before its last distance.
Abandons(S) ==
    \E i \in 2..Len(S), j \in 1..(Len(S) - 2), b \in 1..Len(S) :
        b < i /\ SumTo(S, i, j) > SumOf(S, b)

\* S has several members of the least sum, none of them its first member.
TiedLater(S) ==
    /\ MedoidAt(S) > 1
    /\ \E j \in 1..Len(S) :
        j # MedoidAt(S) /\ SumOf(S, j) = SumOf(S, MedoidAt(S))

\* C24: centroid(S) of a non-empty S is the 1-medoid of S, the member with
\* the least sum of distances to the others, the first one in the order of
\* S among equals, whatever candidates it abandoned early: for the
\* clusters of every pass of kmedoid that computed new centroids.
C24_CentroidIsMedoid ==
    (kmed.pc = "loop" /\ kmed.n >= 1) =>
        \A j \in 1..Len(kmed.res) :
            kmed.buff[1][j] = kmed.res[j].a[MedoidAt(kmed.res[j].a)]

\* centroid chose among members of equal sums, and on a cluster where it
\* abandoned a candidate early.
C24_Witness ==
    /\ kmed.pc = "loop" /\ kmed.n >= 1
    /\ \E j \in 1..Len(kmed.res) : TiedLater(kmed.res[j].a)
    /\ \E j \in 1..Len(kmed.res) :
        Len(kmed.res[j].a) >= 4 /\ Abandons(kmed.res[j].a)

\* The members of cluster j of the result of kmedoid, and its centroid.
Members(j) == kmed.res[j].a
CentroidOf(j) == kmed.res[j].c

\* No index stands twice in the sequence s.
NoRepeat(s) == \A m \in 1..Len(s), n \in 1..Len(s) : m # n => s[m] # s[n]

\* The index x is in the cluster of its nearest centroid, the first one in
\* the order of the clusters among equals.
NearestFirst(x, j) ==
    /\ \A i \in 1..Len(kmed.res) :
        Dist(x, CentroidOf(j)) <= Dist(x, CentroidOf(i))
    /\ \A i \in 1..(j - 1) : Dist(x, CentroidOf(i)) > Dist(x, CentroidOf(j))

\* C25: kmedoid(S, k) with |S| > k returns exactly k clusters whose member
\* lists are pairwise disjoint, cover S and hold their own centroid, with
\* every other member in the cluster of its nearest centroid, the first
\* one among equals; with |S| <= k it returns every element of S as the
\* centroid of a cluster of its own with no other member.
C25_KmedoidPartition ==
    (kmed.pc = "returned" /\ kmed.k_num >= 1) =>
        IF Len(kmed.all_ixs) > kmed.k_num
        THEN /\ Len(kmed.res) = kmed.k_num
             /\ \A j \in 1..Len(kmed.res) :
                 /\ NoRepeat(Members(j))
                 /\ CentroidOf(j) \in Elems(Members(j))
                 /\ \A i \in 1..Len(kmed.res) :
                     i # j => Elems(Members(i)) \cap Elems(Members(j)) = {}
                 /\ \A m \in 1..Len(Members(j)) :
                     Members(j)[m] # CentroidOf(j) =>
                         NearestFirst(Members(j)[m], j)
             /\ UNION {Elems(Members(j)) : j \in 1..Len(kmed.res)}
                    = Elems(kmed.all_ixs)
        ELSE /\ Len(kmed.res) = Len(kmed.all_ixs)
             /\ \A j \in 1..Len(kmed.res) :
                 /\ CentroidOf(j) = kmed.all_ixs[j]
                 /\ Elems(Members(j)) \subseteq {CentroidOf(j)}

\* kmedoid returned more than one cluster after its centroids changed, and
\* a member as near to an earlier centroid as to a later one.
C25_Witness ==
    /\ kmed.pc = "returned" /\ kmed.n >= 3
    /\ Len(kmed.res) >= 2
    /\ \E j \in 1..Len(kmed.res) : Len(Members(j)) >= 3
    /\ \E j \in 1..Len(kmed.res), i \in 1..Len(kmed.res) :
      \E m \in 1..Len(Members(j)) :
        /\ j < i
        /\ Members(j)[m] # CentroidOf(j)
        /\ Dist(Members(j)[m], CentroidOf(j))
               = Dist(Members(j)[m], CentroidOf(i))

\* kmedoid returned every one of at least two indices as a cluster of its
\* own.
C25_WitnessSmall ==
    /\ kmed.pc = "returned" /\ kmed.n = 0
    /\ Len(kmed.all_ixs) >= 2
    /\ Len(kmed.all_ixs) <= kmed.k_num

\* The estimates the outer case computes for the children of the queue
\* entry e once e is popped: the distance of e minus the center distance
\* of the child.
OuterEstimates(e) ==
    LET own_dist == get_distance(RootProvider, other, e)
    IN  IF e.elem.radius < own_dist
        THEN {own_dist - e.elem.children[i].center_dist :
                  i \in 1..Len(e.elem.children)}
        ELSE {}

\* C26: in the outer case of the stream search the estimate
\* est_c = true_dist(n) - center_distance(c) of a child c is never
\* negative, and every lower bound that is a pruning key or a queue key is
\* at least 0.
C26_EstimateNonNegative ==
    form = "stream" =>
        \A e \in queue :
            /\ dist_min(e) >= 0
            /\ \A est \in OuterEstimates(e) : est >= 0

\* The queue holds an entry with an estimate, of a child at a positive
\* center distance, and an entry whose children are about to be estimated.
C26_Witness ==
    /\ form = "stream" /\ spc = "run"
    /\ \E e \in queue : ~e.dist.known /\ e.dist.v > 0
    /\ \E e \in queue : \E est \in OuterEstimates(e) :
        est < get_distance(RootProvider, other, e)

\* The indices of the roots of the trees the search covers.
RootIndices ==
    {e.elem.centroid_index : e \in get_roots(trees, scope, RootProvider, other)}

\* C27: within one stream search every tree node is pushed onto the queue
\* at most once, its distance to the query is computed at most once (an
\* entry of the queue holds a distance exactly if the distance of its node
\* was computed, an estimate otherwise), every node in the result buffer
\* had its distance computed, and get_cached_dist never meets an element
\* that holds an estimate only.
C27_QueryLocalMemo ==
    form = "stream" =>
        /\ \A i \in BagToSet(seen.pushed) : CopiesIn(i, seen.pushed) = 1
        /\ \A i \in BagToSet(seen.dists) : CopiesIn(i, seen.dists) = 1
        /\ \A e \in queue :
            /\ BagIn(e.elem.centroid_index, seen.pushed)
            /\ e.dist.known <=> BagIn(e.elem.centroid_index, seen.dists)
        /\ \A i \in 1..Len(res) :
            /\ BagIn(res[i][1], seen.pushed)
            /\ BagIn(res[i][1], seen.dists)
        /\ ~seen.unknown

\* A finished search that took a node into the buffer which was pushed
\* with an estimate, computed the distance of a child in the inner case,
\* and left a pushed estimate behind without a distance.
C27_Witness ==
    /\ form = "stream" /\ spc = "done"
    /\ \E i \in 1..Len(res) :
        /\ res[i][1] \notin RootIndices
        /\ \E j \in 1..Len(trees) :
            \E c \in Elems(trees[j].tree.root.children) :
                /\ c.node.centroid_index = res[i][1]
                /\ trees[j].tree.root.radius
                       < QDist(trees[j].tree.root.centroid_index)
    /\ \E i \in BagToSet(seen.dists) :
        i \notin RootIndices /\ ~BagIn(i, seen.pushed)
    /\ \E i \in BagToSet(seen.pushed) : ~BagIn(i, seen.dists)

\* The cache of sink x holds the distance of the pair {a, b}.
PairPresent(x, a, b) ==
    \E i \in 1..Len(x.cache.lru) :
        {x.cache.lru[i].key[1], x.cache.lru[i].key[2]} = {a, b}

\* The distance the cache of sink x holds for the pair {a, b}.
PairValue(x, a, b) ==
    LET i == CHOOSE i \in 1..Len(x.cache.lru) :
                 {x.cache.lru[i].key[1], x.cache.lru[i].key[2]} = {a, b}
    IN  x.cache.lru[i].value

\* One consultation of cached_dist on (io'.a, io'.b): one access is
\* logged; a hit, with the stored value, when the pair is present in
\* either order; else a miss, with the kernel's value, which an LRU cache
\* holds afterwards under the pair.
OneAccess ==
    (io'.op = "cached_dist" /\ io'.n = io.n + 1) =>
        /\ ctx'.hits + ctx'.miss = ctx.hits + ctx.miss + 1
        /\ IF PairPresent(ctx, io'.a, io'.b)
           THEN /\ ctx'.hits = ctx.hits + 1
                /\ io'.d = PairValue(ctx, io'.a, io'.b)
           ELSE /\ ctx'.miss = ctx.miss + 1
                /\ io'.d = Dist(io'.a, io'.b)
        /\ ctx.cache.kind = "lru" =>
              /\ PairPresent(ctx', io'.b, io'.a)
              /\ PairValue(ctx', io'.b, io'.a) = io'.d
              /\ \A i \in 1..Len(ctx'.cache.lru) :
                    ctx'.cache.lru[i].key[1] <= ctx'.cache.lru[i].key[2]

\* C28: every consultation of cached_dist on two indexed embeddings logs
\* exactly one cache access, a hit with the stored value when the pair is
\* in the cache in either order and else a miss with the kernel's value
\* stored under the normalized key.
C28_CacheAccess == [][OneAccess]_vars

\* The pair (a, b) was consulted and missed, then (b, a) was consulted and
\* hit.
C28_Witness ==
    /\ io.op = "cached_dist" /\ io.n = 2
    /\ io.a > io.b /\ io.prev = <<io.b, io.a>>
    /\ ctx.hits = 1 /\ ctx.miss = 1

\* The pair was consulted again after its entry was evicted, and missed.
C28_WitnessEvicted ==
    /\ io.op = "cached_dist" /\ io.n = 3
    /\ ctx.cache.kind = "lru" /\ ctx.cache.cap = 1
    /\ ctx.hits = 0 /\ ctx.miss = 3
    /\ io.prev # <<io.a, io.b>> /\ io.prev # <<io.b, io.a>>

\* The children of the node are all leaves: build_level added them in its
\* first branch, in the order of cur_all_ixs, which is by increasing index.
LeafGroup(node) ==
    /\ Len(node.children) > 0
    /\ \A i \in 1..Len(node.children) : Len(node.children[i].node.children) = 0

ChildrenDecreasing(node) ==
    \A m \in 1..Len(node.children), n \in 1..Len(node.children) :
        m < n => node.children[m].center_dist >= node.children[n].center_dist

TiesAsAdded(node) ==
    LeafGroup(node) =>
        \A m \in 1..Len(node.children), n \in 1..Len(node.children) :
            (m < n /\ node.children[m].center_dist
                          = node.children[n].center_dist)
            => node.children[m].node.centroid_index
                   < node.children[n].node.centroid_index

BuiltNodes == UNION {Subtrees(Root(i)) : i \in {j \in Slabs : trees[j].ready}}

CreateParams == min_tree_size <= max_tree_size /\ max_tree_size >= 1

\* Every slab made so far is non-empty.
SlabsNonEmpty ==
    CreateParams => \A i \in 1..Len(trees) : RangeLen(trees[i].range) >= 1

\* A round of the loop of Forest::create moves the cursor forward, so the
\* loop ends after at most all.len() rounds.
CreateAdvances ==
    (CreateParams /\ fpc = "create" /\ fpc' = "create"
     /\ Len(trees') = Len(trees) + 1)
    => start' > start /\ start' <= all[2]

\* C30: for every provider size and every 0 <= min_tree <= max_tree with
\* max_tree >= 1, Forest::create terminates (every round of its loop moves
\* the cursor forward within the range) and every slab it makes is
\* non-empty.
C30_CreateTerminates == []SlabsNonEmpty /\ [][CreateAdvances]_vars
====
